---- MODULE Spec2Model ----
(***************************************************************************)
(* Intense Notes (src/src/App.jsx, first App component, lines 1-929):      *)
(* the React component state, its three effects that matter for data       *)
(* (live sync, draft load, autosave debounce), the event handlers that     *)
(* write to the document store, and the store itself with its mutation     *)
(* queue and snapshot listeners.                                           *)
(*                                                                         *)
(* Text is a sequence of one-character strings, so that trim() is a real   *)
(* operation.  A document is a record whose field set may vary (a merge    *)
(* write to a missing document creates one without pinned/createdAt).      *)
(* A timestamp is a natural number; 0 stands for null (a server timestamp  *)
(* that is still pending in the local view).                               *)
(*                                                                         *)
(* Scheduling: a state update re-renders; the effects of a render run in   *)
(* their own step, before any other handler of the component runs.  Only   *)
(* the setTimeout(0) callback of the load effect touches no state and may  *)
(* run between a render and its effects.                                   *)
(***************************************************************************)
EXTENDS Naturals, Integers, Sequences, FiniteSets, TLC

\* ---------------------------------------------------------------- bounds
MaxId == 40
MaxClock == 40
MaxPending == 2
MaxGuardTimers == 1
MaxOps == 4
\* How many flashcard generations a run may start
MaxGenerations == 1

\* ---------------------------------------------------------------- text
Empty == <<>>
Untitled == <<"U", "n", "t", "i", "t", "l", "e", "d">>
\* A createNote that gives the new note the title saveNote falls back to
NewNoteUntitled == Untitled
NewNoteTitle == <<"N", "e", "w", " ", "N", "o", "t", "e">>
SavingBusy == <<"S", "a", "v", "i", "n", "g", ".", ".", ".">>

\* The letters texts are made of
Letters ==
  <<"a", "b", "c", "d", "e", "f", "g", "h", "i", "j", "k", "l", "m", "n", "o", "p",
    "q", "r", "s", "t", "u", "v", "w", "x", "y", "z">>

\* White space as String.prototype.trim sees it (the characters the model uses)
WhiteSpace == {" ", "\t", "\n"}
IsSpace(c) == c \in WhiteSpace

RECURSIVE trimStart(_)
trimStart(s) ==
  IF s # Empty /\ IsSpace(Head(s)) THEN trimStart(Tail(s)) ELSE s

RECURSIVE trimEnd(_)
trimEnd(s) ==
  IF s # Empty /\ IsSpace(s[Len(s)]) THEN trimEnd(SubSeq(s, 1, Len(s) - 1)) ELSE s

\* A trim that forgets the end of the string
trimLeftOnly(s) == trimStart(s)

\* String.prototype.trim
trim(s) == trimEnd(trimStart(s))

\* x || y for text: the empty string is falsy
OrText(x, y) == IF x = Empty THEN y ELSE x

\* ---------------------------------------------------------------- values
NoUser == "none"
Users == {"u1", "u2"}
Null == 0

NoTimer == [kind |-> "none"]

\* n.f || "" for a field that may be missing from the document
Field(n, f) == IF f \in DOMAIN n THEN n[f] ELSE Empty
\* !!n.pinned
Pinned(n) == IF "pinned" \in DOMAIN n THEN n.pinned ELSE FALSE

VARIABLES
  \* React state of App
  user, notes, tasks, cards, activeNoteId,
  draftTitle, draftClass, draftBody,
  taskTitle, taskClass, taskDue,
  saveState, busy,
  \* refs
  saveDebounceRef, ignoreAutosaveRef,
  \* effects of the last render that have not run yet, and what they left behind
  depUser, depActive, depDraft, autosaveCleanup, subs, delivered,
  \* pending setTimeout(0) callbacks of the load effect
  guardTimers,
  \* the document store: server documents per user and collection, the server
  \* clock, the client's queue of writes not yet acknowledged, the ids uid() has
  \* given or the store held before
  store, clock, pending, usedIds,
  \* what the user was shown / what escaped
  alertMsg, uncaught,
  \* history: the last save that failed, the last save that was accepted, how
  \* many writes the store refused,
  \* where the draft came from, what edit
  \* is not yet written, the pin toggles of one note
  failed, saved, rejects, draftCause, owner, unsaved, pinGhost,
  \* how many operations the user (or the identity provider) has started
  ops,
  \* React state of the tools around the editor: search and folder filter,
  \* calendar month, transcript
  noteSearch, classFilter, calMonth, transcript, isTranscribing, speechSupported,
  \* the recognizer behind speechRef: "none", "idle", "listening" or "stopping"
  rec,
  \* requests to /api/flashcards and /api/summarize that have not finished
  gen, sumReq,
  \* history: the last flashcard generation; the last value computed by a view;
  \* the last thing that happened to the transcript panel
  genGhost, view, speechLog,
  \* study mode of the flashcards panel
  studyMode, studyIndex, studyFlipped, studyOnlyThisNote,
  \* the request an endpoint handler of api/ was invoked with (and what its
  \* environment will answer), and what the handler has done with res
  req, res

reactVars == <<user, notes, tasks, cards, activeNoteId, draftTitle, draftClass,
               draftBody, taskTitle, taskClass, taskDue, saveState, busy>>
refVars == <<saveDebounceRef, ignoreAutosaveRef>>
effectVars == <<depUser, depActive, depDraft, autosaveCleanup, subs, delivered>>
storeVars == <<store, clock, pending, usedIds>>
ghostVars == <<alertMsg, uncaught, failed, saved, rejects, draftCause, owner, unsaved, pinGhost>>
toolVars == <<noteSearch, classFilter, calMonth, transcript, isTranscribing,
              speechSupported, rec, gen, sumReq, genGhost, view, speechLog,
              req, res, studyMode, studyIndex, studyFlipped, studyOnlyThisNote>>
vars == <<reactVars, refVars, effectVars, guardTimers, storeVars, ghostVars, ops,
          toolVars>>

\* ---------------------------------------------------------------- the store
Collections == {"notes", "tasks", "flashcards"}

\* setDoc / deleteDoc applied to the documents of one collection; t is the value
\* serverTimestamp() fields take (0 in the local view, the server time on the server)
ApplyWrite(docs, w, t) ==
  IF w.del
    THEN [i \in DOMAIN docs \ {w.id} |-> docs[i]]
    ELSE LET new == [f \in w.ts |-> t] @@ w.data
             doc == IF w.merge /\ w.id \in DOMAIN docs THEN new @@ docs[w.id] ELSE new
         IN (w.id :> doc) @@ docs

RECURSIVE ApplyAll(_, _, _, _)
ApplyAll(docs, ws, u, c) ==
  IF ws = <<>> THEN docs
  ELSE LET w == Head(ws)
       IN ApplyAll(IF w.user = u /\ w.coll = c THEN ApplyWrite(docs, w, 0) ELSE docs,
                   Tail(ws), u, c)

\* The client's local view of a collection: server documents overlaid with the
\* writes still in the queue (latency compensation)
View(u, c) == ApplyAll(store[u][c], pending, u, c)

\* Position in the queue of the last write that left a pending server timestamp
\* in field f of document i (0 when none)
PendIndex(u, c, i, f) ==
  LET hits == {k \in 1..Len(pending) :
                 /\ pending[k].user = u /\ pending[k].coll = c /\ pending[k].id = i
                 /\ ~pending[k].del /\ f \in pending[k].ts}
  IN IF hits = {} THEN 0 ELSE CHOOSE k \in hits : \A j \in hits : j <= k

\* Sort key of a document under orderBy(f): a pending server timestamp sorts
\* after every committed one
OrderKey(docs, u, c, i, f) ==
  IF docs[i][f] = 0 THEN MaxClock + 1 + PendIndex(u, c, i, f) ELSE docs[i][f]

RECURSIVE OrderDesc(_, _, _, _, _)
OrderDesc(docs, ids, u, c, f) ==
  IF ids = {} THEN <<>>
  ELSE LET top == CHOOSE i \in ids : \A j \in ids :
                    \/ OrderKey(docs, u, c, i, f) > OrderKey(docs, u, c, j, f)
                    \/ OrderKey(docs, u, c, i, f) = OrderKey(docs, u, c, j, f) /\ i >= j
       IN <<top>> \o OrderDesc(docs, ids \ {top}, u, c, f)

RECURSIVE OrderAsc(_, _, _)
OrderAsc(docs, ids, f) ==
  IF ids = {} THEN <<>>
  ELSE LET top == CHOOSE i \in ids : \A j \in ids :
                    \/ docs[i][f] < docs[j][f]
                    \/ docs[i][f] = docs[j][f] /\ i <= j
       IN <<top>> \o OrderAsc(docs, ids \ {top}, f)

\* A mapping that loses the last document of the snapshot
MapDocsButLast(docs, order) ==
  [k \in 1..(Len(order) - 1) |-> [id |-> order[k]] @@ docs[order[k]]]

\* snap.docs.map((d) => ({ id: d.id, ...d.data() }))
MapDocs(docs, order) == [k \in 1..Len(order) |-> [id |-> order[k]] @@ docs[order[k]]]

\* query(collection(db, "users", uid, "notes"), orderBy("updatedAt", "desc"))
notesQ(u) ==
  LET docs == View(u, "notes")
  IN MapDocs(docs, OrderDesc(docs, {i \in DOMAIN docs : "updatedAt" \in DOMAIN docs[i]},
                             u, "notes", "updatedAt"))

\* query(collection(db, "users", uid, "tasks"), orderBy("due", "asc"))
tasksQ(u) ==
  LET docs == View(u, "tasks")
  IN MapDocs(docs, OrderAsc(docs, {i \in DOMAIN docs : "due" \in DOMAIN docs[i]}, "due"))

\* query(collection(db, "users", uid, "flashcards"), orderBy("createdAt", "desc"))
cardsQ(u) ==
  LET docs == View(u, "flashcards")
  IN MapDocs(docs, OrderDesc(docs, {i \in DOMAIN docs : "createdAt" \in DOMAIN docs[i]},
                             u, "flashcards", "createdAt"))

\* ---------------------------------------------------------------- derived
\* notes.find((n) => n.id === activeNoteId) || null, as the index in notes (0 = null)
ActiveIndex(list, id) ==
  LET hits == {k \in 1..Len(list) : list[k].id = id}
  IN IF hits = {} THEN 0 ELSE CHOOSE k \in hits : \A j \in hits : k <= j

\* The component is mounted: no render has thrown
Mounted == "render" \notin uncaught

\* The component is mounted and no effect of the last render is waiting to run
Settled == Mounted /\ ~depUser /\ ~depActive /\ ~depDraft

\* One more operation started from outside the component
\* A state setter called with v: a page that has been unmounted ignores it
setState(prev, v) == IF Mounted THEN v ELSE prev

\* Timers, promises and answers run their code between renders, and go on doing
\* so after the page has been unmounted
Quiet == Settled \/ ~Mounted

Op == Mounted /\ ops < MaxOps /\ ops' = ops + 1

\* The page is rendered for a signed-in user (otherwise App returns the login
\* screen), the effects of that render have run
Shown == Settled /\ user # NoUser

\* The page has come to rest: it shows a signed-in user the first snapshot of
\* every list and no zero-delay timer is waiting
Ready ==
  /\ Settled /\ user # NoUser /\ subs = user
  /\ \A c \in DOMAIN delivered : delivered[c]
  /\ guardTimers = 0

\* ---------------------------------------------------------------- initial state
\* Documents the store holds before the session starts
SeedNotes ==
  (1 :> [title |-> <<"t">>, className |-> <<"c">>, body |-> <<"a">>,
         pinned |-> FALSE, createdAt |-> 1, updatedAt |-> 1])
  @@ (2 :> [title |-> <<"t">>, className |-> <<"c">>, body |-> <<"b">>,
            pinned |-> TRUE, createdAt |-> 2, updatedAt |-> 2])
SeedTasks ==
  (1 :> [title |-> <<"t">>, className |-> <<"c">>, due |-> 1, done |-> FALSE,
         createdAt |-> 1])
SeedCards ==
  (1 :> [noteId |-> 1, noteTitle |-> <<"t">>, question |-> <<"q">>,
         answer |-> <<"a">>, createdAt |-> 2])
OtherNotes ==
  (3 :> [title |-> <<"o">>, className |-> Empty, body |-> <<"o">>,
         pinned |-> FALSE, createdAt |-> 1, updatedAt |-> 1])
OtherTasks ==
  (2 :> [title |-> <<"o">>, className |-> Empty, due |-> 2, done |-> TRUE,
         createdAt |-> 2])
NoDocs == [i \in {} |-> 0]

SeedStore ==
  [u \in Users |->
     [c \in Collections |->
        CASE u = "u1" /\ c = "notes" -> SeedNotes
          [] u = "u1" /\ c = "tasks" -> SeedTasks
          [] u = "u1" /\ c = "flashcards" -> SeedCards
          [] u = "u2" /\ c = "notes" -> OtherNotes
          [] u = "u2" /\ c = "tasks" -> OtherTasks
          [] OTHER -> NoDocs]]

NoOwner == [user |-> NoUser, id |-> Null]
NoUnsaved == [on |-> FALSE]
\* No saveNote write has failed
NoFailure == [on |-> FALSE]
\* No saveNote write has been accepted
NoSaved == [on |-> FALSE]

\* App() after mount: every useState initial value, refs, and the store as found
\* The state after construction, the mirrored lists left open: the store holds
\* s, its latest server time is t and the ids given so far are ids
InitCoreAt(s, t, ids) ==
  /\ user = NoUser
  /\ cards = <<>>
  /\ activeNoteId = Null
  /\ draftTitle = Empty /\ draftClass = Empty /\ draftBody = Empty
  /\ taskTitle = Empty /\ taskClass = Empty /\ taskDue = 0
  /\ saveState = "idle" /\ busy = Empty
  /\ saveDebounceRef = NoTimer /\ ignoreAutosaveRef = FALSE
  /\ depUser = FALSE /\ depActive = FALSE /\ depDraft = FALSE
  /\ autosaveCleanup = FALSE
  /\ subs = NoUser /\ delivered = [c \in Collections |-> FALSE]
  /\ guardTimers = 0
  /\ store = s /\ clock = t /\ pending = <<>> /\ usedIds = ids
  /\ alertMsg = "" /\ uncaught = {} /\ failed = NoFailure /\ saved = NoSaved /\ rejects = 0
  /\ draftCause = "none"
  /\ owner = [f \in {"title", "className", "body"} |-> NoOwner]
  /\ unsaved = NoUnsaved
  /\ pinGhost = [id |-> Null, user |-> NoUser, count |-> 0, orig |-> FALSE]
  /\ ops = 0

\* The state after construction over a store with the times and ids of the seed
InitCoreOn(s) == InitCoreAt(s, 2, 1..3)

\* The state after construction, over the seed store
InitCore == InitCoreOn(SeedStore)

\* A date: a year, a month as Date counts it (0 = January), a day of the month
Date(y, m, d) == [y |-> y, m |-> m, d |-> d]
\* The day the page is opened on (new Date())
Today == Date(2024, 1, 29)

\* The filter value that shows every folder
ALL == <<"A", "L", "L">>
NoView == [fn |-> "none"]
\* No generation in flight, none invoked yet
NoGen == <<>>
NoGenGhost == [n |-> 0, h |-> <<>>]
NoRequest == [flight |-> <<>>, last |-> [on |-> FALSE]]

NoSpeech == [kind |-> "none", flip |-> FALSE, results |-> <<>>]

\* The transcript panel after the mount effect: the browser has a
\* SpeechRecognition (supported) or not
InitSpeech(supported) ==
  /\ transcript = Empty /\ isTranscribing = FALSE /\ speechSupported = supported
  /\ rec = IF supported THEN "idle" ELSE "none"
  /\ speechLog = NoSpeech
InitRequests == gen = NoGen /\ sumReq = NoRequest /\ genGhost = NoGenGhost

\* The tools after construction, in a browser with speech recognition
\* No request has reached an endpoint
NoCall == [path |-> "none"]
NoAnswer == [done |-> FALSE, sent |-> <<>>, calls |-> 0]
\* useState(false), useState(0), useState(false), useState(false)
InitStudy ==
  /\ studyMode = FALSE /\ studyIndex = 0 /\ studyFlipped = FALSE
  /\ studyOnlyThisNote = FALSE
InitTools ==
  /\ InitSpeech(TRUE) /\ InitRequests /\ req = NoCall /\ res = NoAnswer
  /\ InitStudy

\* The search box, the folder filter and the calendar after construction
InitViews ==
  /\ noteSearch = Empty /\ classFilter = ALL /\ calMonth = Today
  /\ view = NoView

Init ==
  /\ InitCore /\ notes = <<>> /\ tasks = <<>>
  /\ InitTools /\ InitViews

\* ---------------------------------------------------------------- auth
\* onAuthStateChanged(auth, (u) => setUser(u || null))
AuthChanged(u) ==
  /\ Op /\ UNCHANGED toolVars
  /\ Settled
  /\ u # user
  /\ user' = u
  /\ depUser' = TRUE
  /\ UNCHANGED <<notes, tasks, cards, activeNoteId, draftTitle, draftClass, draftBody,
                 taskTitle, taskClass, taskDue, saveState, busy>>
  /\ UNCHANGED <<refVars, depActive, depDraft, autosaveCleanup, subs, delivered,
                 guardTimers, storeVars, ghostVars>>

\* A live sync effect whose cleanup leaves the listeners attached
liveSyncNoCleanup(prev, u) == IF u = NoUser THEN prev ELSE u

\* Whose collections are listened to after the live sync effect ran: the cleanup
\* of the previous run has unsubscribed, the body returns early without a user
liveSync(prev, u) ==
  LET afterCleanup == NoUser
  IN IF u = NoUser THEN afterCleanup ELSE u

\* The live sync effect, deps [user]: the cleanup of the previous run unsubscribes
\* all three listeners, the body subscribes when a user is signed in
EffectSync ==
  /\ UNCHANGED <<ops, toolVars>>
  /\ depUser
  /\ depUser' = FALSE
  /\ subs' = liveSync(subs, user)
  /\ delivered' = [c \in Collections |-> FALSE]
  /\ UNCHANGED <<reactVars, refVars, depActive, depDraft, autosaveCleanup,
                 guardTimers, storeVars, ghostVars>>

\* An updater that always selects the first note of the snapshot
nextActiveFirst(prev, list) == IF Len(list) > 0 THEN list[1].id ELSE Null

\* setActiveNoteId((prev) => prev ?? list[0]?.id ?? null)
nextActive(prev, list) ==
  IF prev # Null THEN prev
  ELSE IF Len(list) > 0 THEN list[1].id ELSE Null

\* A snapshot callback that also copies the active note's fields into the draft
SnapshotNotesReloading ==
  /\ UNCHANGED <<ops, toolVars>>
  /\ Settled
  /\ subs # NoUser
  /\ ~delivered["notes"] \/ notes # notesQ(subs)
  /\ LET list == notesQ(subs)
         k == ActiveIndex(list, nextActive(activeNoteId, list))
     IN /\ notes' = list
        /\ activeNoteId' = nextActive(activeNoteId, list)
        /\ depActive' = (nextActive(activeNoteId, list) # activeNoteId)
        /\ draftTitle' = IF k = 0 THEN draftTitle ELSE Field(list[k], "title")
        /\ draftClass' = IF k = 0 THEN draftClass ELSE Field(list[k], "className")
        /\ draftBody' = IF k = 0 THEN draftBody ELSE Field(list[k], "body")
  /\ delivered' = [delivered EXCEPT !["notes"] = TRUE]
  /\ UNCHANGED <<user, tasks, cards, taskTitle, taskClass, taskDue, saveState, busy>>
  /\ UNCHANGED <<refVars, depUser, depDraft, autosaveCleanup, subs,
                 guardTimers, storeVars, ghostVars>>

\* onSnapshot(notesQ, ...) callback
SnapshotNotes ==
  /\ UNCHANGED <<ops, toolVars>>
  /\ Settled
  /\ subs # NoUser
  /\ ~delivered["notes"] \/ notes # notesQ(subs)
  /\ LET list == notesQ(subs)
     IN /\ notes' = list
        /\ activeNoteId' = nextActive(activeNoteId, list)
        /\ depActive' = (nextActive(activeNoteId, list) # activeNoteId)
  /\ delivered' = [delivered EXCEPT !["notes"] = TRUE]
  /\ UNCHANGED <<user, tasks, cards, draftTitle, draftClass, draftBody,
                 taskTitle, taskClass, taskDue, saveState, busy>>
  /\ UNCHANGED <<refVars, depUser, depDraft, autosaveCleanup, subs,
                 guardTimers, storeVars, ghostVars>>

\* onSnapshot(tasksQ, ...) callback
SnapshotTasks ==
  /\ UNCHANGED <<ops, toolVars>>
  /\ Settled
  /\ subs # NoUser
  /\ ~delivered["tasks"] \/ tasks # tasksQ(subs)
  /\ tasks' = tasksQ(subs)
  /\ delivered' = [delivered EXCEPT !["tasks"] = TRUE]
  /\ UNCHANGED <<user, notes, cards, activeNoteId, draftTitle, draftClass, draftBody,
                 taskTitle, taskClass, taskDue, saveState, busy>>
  /\ UNCHANGED <<refVars, depUser, depActive, depDraft, autosaveCleanup, subs,
                 guardTimers, storeVars, ghostVars>>

\* onSnapshot(cardsQ, ...) callback
SnapshotCards ==
  /\ UNCHANGED <<ops, toolVars>>
  /\ Settled
  /\ subs # NoUser
  /\ ~delivered["flashcards"] \/ cards # cardsQ(subs)
  /\ cards' = cardsQ(subs)
  /\ delivered' = [delivered EXCEPT !["flashcards"] = TRUE]
  /\ UNCHANGED <<user, notes, tasks, activeNoteId, draftTitle, draftClass, draftBody,
                 taskTitle, taskClass, taskDue, saveState, busy>>
  /\ UNCHANGED <<refVars, depUser, depActive, depDraft, autosaveCleanup, subs,
                 guardTimers, storeVars, ghostVars>>

\* ---------------------------------------------------------------- note list view
\* "undefined", as a template literal prints a missing value
UndefinedText == <<"u", "n", "d", "e", "f", "i", "n", "e", "d">>
Capitals ==
  <<"A", "B", "C", "D", "E", "F", "G", "H", "I", "J", "K", "L", "M", "N", "O", "P",
    "Q", "R", "S", "T", "U", "V", "W", "X", "Y", "Z">>
\* A character that is left as it is
lowerNone(c) == c

\* toLowerCase of one character
lower(c) ==
  IF \E i \in 1..26 : Capitals[i] = c
    THEN Letters[CHOOSE i \in 1..26 : Capitals[i] = c]
    ELSE c
\* normalize: String(s || "").toLowerCase()
normalize(s) == [i \in 1..Len(s) |-> lower(s[i])]

\* hay.includes(q)
includes(hay, q) ==
  \E i \in 0..(Len(hay) - Len(q)) : SubSeq(hay, i + 1, i + Len(q)) = q

\* ${n.f} in a template literal: a field missing from the document reads
\* "undefined"
Interpolated(n, f) == IF f \in DOMAIN n THEN n[f] ELSE UndefinedText

\* `${n.title} ${n.className} ${n.body}`
haystack(n) ==
  Interpolated(n, "title") \o <<" ">> \o Interpolated(n, "className") \o <<" ">>
    \o Interpolated(n, "body")

\* The predicate of notes.filter in filteredNotes
matches(n, search, cf) ==
  LET q == normalize(search)
      matchesClass == IF cf = ALL THEN TRUE ELSE trim(Field(n, "className")) = cf
  IN IF q = Empty THEN matchesClass
     ELSE matchesClass /\ includes(normalize(haystack(n)), q)

RECURSIVE filter(_, _, _)
filter(list, search, cf) ==
  IF list = <<>> THEN <<>>
  ELSE (IF matches(Head(list), search, cf) THEN <<Head(list)>> ELSE <<>>)
         \o filter(Tail(list), search, cf)

\* a.updatedAt?.seconds ? a.updatedAt.seconds : 0
seconds(n) ==
  IF "updatedAt" \in DOMAIN n /\ n.updatedAt # Null THEN n.updatedAt ELSE 0

\* A comparator that looks at the update time only
compareTimeOnly(a, b) == seconds(b) - seconds(a)

\* The comparator of list.sort in filteredNotes
compare(a, b) ==
  IF Pinned(a) # Pinned(b) THEN (IF Pinned(a) THEN -1 ELSE 1)
  ELSE seconds(b) - seconds(a)

\* Array.prototype.sort: a stable sort, x going behind everything that is not
\* after it
RECURSIVE insert(_, _)
insert(sorted, x) ==
  IF sorted = <<>> THEN <<x>>
  ELSE IF compare(Head(sorted), x) <= 0
    THEN <<Head(sorted)>> \o insert(Tail(sorted), x)
    ELSE <<x>> \o sorted
RECURSIVE sort(_)
sort(list) ==
  IF list = <<>> THEN <<>>
  ELSE insert(sort(SubSeq(list, 1, Len(list) - 1)), list[Len(list)])

\* useMemo(() => notes.filter(...).sort(...), [notes, noteSearch, classFilter])
filteredNotes(list, search, cf) == sort(filter(list, search, cf))

\* ---------------------------------------------------------------- editor
Me == [user |-> user, id |-> activeNoteId]

\* The load effect, deps [activeNoteId]: copies the active note's fields into the
\* draft, raises the guard and schedules its reset with setTimeout(0)
EffectLoad ==
  /\ UNCHANGED <<ops, toolVars>>
  /\ depActive /\ ~depUser
  /\ depActive' = FALSE
  /\ LET k == ActiveIndex(notes, activeNoteId)
     IN IF k = 0
          THEN UNCHANGED <<draftTitle, draftClass, draftBody, saveState,
                           ignoreAutosaveRef, guardTimers, depDraft, draftCause,
                           owner, unsaved>>
          ELSE /\ guardTimers < MaxGuardTimers
               /\ ignoreAutosaveRef' = TRUE
               /\ draftTitle' = Field(notes[k], "title")
               /\ draftClass' = Field(notes[k], "className")
               /\ draftBody' = Field(notes[k], "body")
               /\ saveState' = "idle"
               /\ guardTimers' = guardTimers + 1
               /\ depDraft' = (<<draftTitle', draftClass', draftBody'>>
                                 # <<draftTitle, draftClass, draftBody>>)
               /\ draftCause' = IF depDraft' THEN "load" ELSE draftCause
               /\ owner' = [f \in DOMAIN owner |-> Me]
               /\ unsaved' = IF unsaved.on THEN [unsaved EXCEPT !.switched = TRUE]
                             ELSE unsaved
  /\ UNCHANGED <<user, notes, tasks, cards, activeNoteId, taskTitle, taskClass,
                 taskDue, busy>>
  /\ UNCHANGED <<saveDebounceRef, depUser, autosaveCleanup, subs, delivered,
                 storeVars, alertMsg, uncaught, failed, saved, rejects, pinGhost>>

\* setTimeout(() => { ignoreAutosaveRef.current = false; }, 0)
GuardReset ==
  /\ UNCHANGED <<ops, toolVars>>
  /\ guardTimers > 0
  /\ guardTimers' = guardTimers - 1
  /\ ignoreAutosaveRef' = FALSE
  /\ UNCHANGED <<reactVars, saveDebounceRef, effectVars, storeVars, ghostVars>>

\* onClick={() => setActiveNoteId(n.id)} on the k-th row of the notes list; the
\* list has a row for each note of filteredNotes, and for no other note
Select(k) ==
  /\ Op /\ UNCHANGED toolVars
  /\ Shown
  /\ k \in 1..Len(filteredNotes(notes, noteSearch, classFilter))
  /\ LET n == filteredNotes(notes, noteSearch, classFilter)[k]
     IN /\ n.id # activeNoteId
        /\ activeNoteId' = n.id
  /\ depActive' = TRUE
  /\ UNCHANGED <<user, notes, tasks, cards, draftTitle, draftClass, draftBody,
                 taskTitle, taskClass, taskDue, saveState, busy>>
  /\ UNCHANGED <<refVars, depUser, depDraft, autosaveCleanup, subs, delivered,
                 guardTimers, storeVars, ghostVars>>

\* What every draft edit does besides setting its field: the autosave effect is
\* due, and the field now holds text typed for the active note
Edited(f) ==
  /\ Op /\ UNCHANGED toolVars
  /\ depDraft' = TRUE
  /\ draftCause' = "edit"
  /\ owner' = [owner EXCEPT ![f] = Me]
  /\ UNCHANGED <<user, notes, tasks, cards, activeNoteId, taskTitle, taskClass,
                 taskDue, saveState, busy>>
  /\ UNCHANGED <<refVars, depUser, depActive, autosaveCleanup, subs, delivered,
                 guardTimers, storeVars, alertMsg, uncaught, failed, saved, rejects, unsaved, pinGhost>>

\* onChange={(e) => setDraftTitle(e.target.value)} (disabled without an active note)
EditTitle(v) ==
  /\ Shown /\ activeNoteId # Null
  /\ v # draftTitle /\ draftTitle' = v
  /\ UNCHANGED <<draftClass, draftBody>>
  /\ Edited("title")

\* onChange={(e) => setDraftClass(e.target.value)}
EditClass(v) ==
  /\ Shown /\ activeNoteId # Null
  /\ v # draftClass /\ draftClass' = v
  /\ UNCHANGED <<draftTitle, draftBody>>
  /\ Edited("className")

\* onChange={(e) => setDraftBody(e.target.value)}
EditBody(v) ==
  /\ Shown /\ activeNoteId # Null
  /\ v # draftBody /\ draftBody' = v
  /\ UNCHANGED <<draftTitle, draftClass>>
  /\ Edited("body")

\* The values saveNote of the current render would write, with their history
Closure(cause) ==
  [user |-> user, id |-> activeNoteId, title |-> draftTitle, className |-> draftClass,
   body |-> draftBody, cause |-> cause, own |-> owner]

\* window.setTimeout(() => { saveNote(false); }, 900)
AutosaveTimer == [kind |-> "autosave", save |-> Closure(draftCause)]
\* window.setTimeout(() => setSaveState("idle"), 1200)
IdleTimer == [kind |-> "idle"]

\* The autosave effect may arm its timer: a user, an active note, the guard down
autosaveArms == user # NoUser /\ activeNoteId # Null /\ ~ignoreAutosaveRef

\* The autosave debounce effect, deps [draftTitle, draftClass, draftBody]: first
\* the cleanup the previous run returned (if it returned one), then the body
EffectAutosave ==
  /\ UNCHANGED <<ops, toolVars>>
  /\ depDraft /\ ~depUser /\ ~depActive
  /\ depDraft' = FALSE
  /\ IF autosaveArms
       THEN /\ saveDebounceRef' = AutosaveTimer
            /\ saveState' = "saving"
            /\ autosaveCleanup' = TRUE
            /\ unsaved' = IF draftCause = "edit"
                            THEN [on |-> TRUE, switched |-> FALSE, user |-> user,
                                  id |-> activeNoteId, title |-> draftTitle,
                                  className |-> draftClass, body |-> draftBody]
                            ELSE unsaved
       ELSE /\ saveDebounceRef' = IF autosaveCleanup THEN NoTimer ELSE saveDebounceRef
            /\ autosaveCleanup' = FALSE
            /\ UNCHANGED <<saveState, unsaved>>
  /\ UNCHANGED <<user, notes, tasks, cards, activeNoteId, draftTitle, draftClass,
                 draftBody, taskTitle, taskClass, taskDue, busy>>
  /\ draftCause' = "none"
  /\ UNCHANGED <<ignoreAutosaveRef, depUser, depActive, subs, delivered, guardTimers,
                 storeVars, alertMsg, uncaught, failed, saved, rejects, owner, pinGhost>>

\* ---------------------------------------------------------------- writes
\* Room in the model for one more write
CanWrite == Len(pending) < MaxPending /\ clock + Len(pending) < MaxClock

\* A saveNote that trims the body as it trims the title and the folder
saveNoteWriteTrimmed(c, manual) ==
  [op |-> "saveNote", user |-> c.user, coll |-> "notes", id |-> c.id,
   data |-> [title |-> OrText(trim(c.title), Untitled),
             className |-> trim(c.className), body |-> trim(c.body)],
   ts |-> {"updatedAt"}, merge |-> TRUE, del |-> FALSE, manual |-> manual,
   cause |-> c.cause, own |-> c.own, src |-> c.body]

\* The setDoc of saveNote: a merge write of the closure's draft
saveNoteWrite(c, manual) ==
  [op |-> "saveNote", user |-> c.user, coll |-> "notes", id |-> c.id,
   data |-> [title |-> OrText(trim(c.title), Untitled),
             className |-> trim(c.className), body |-> c.body],
   ts |-> {"updatedAt"}, merge |-> TRUE, del |-> FALSE, manual |-> manual,
   cause |-> c.cause, own |-> c.own, src |-> c.body]

\* The edit waiting to be written is covered by a write of the same values
Covers(c) ==
  /\ unsaved.on
  /\ unsaved.user = c.user /\ unsaved.id = c.id
  /\ unsaved.title = c.title /\ unsaved.className = c.className /\ unsaved.body = c.body

\* saveNote(manual) as far as its await: the closure c is the render it was made in
saveNote(c, manual) ==
  /\ CanWrite
  /\ busy' = setState(busy, IF manual THEN SavingBusy ELSE busy)
  /\ saveState' = setState(saveState, "saving")
  /\ pending' = Append(pending, saveNoteWrite(c, manual))
  /\ unsaved' = IF Covers(c) THEN NoUnsaved ELSE unsaved

\* The timer held by saveDebounceRef fires
TimerFire ==
  /\ UNCHANGED <<ops, toolVars>>
  /\ Quiet
  /\ \/ /\ saveDebounceRef.kind = "autosave"
        /\ saveNote(saveDebounceRef.save, FALSE)
        /\ UNCHANGED <<store, clock, usedIds>>
     \/ /\ saveDebounceRef.kind = "idle"
        /\ saveState' = setState(saveState, "idle")
        /\ UNCHANGED <<busy, storeVars, unsaved>>
  /\ saveDebounceRef' = NoTimer
  /\ UNCHANGED <<user, notes, tasks, cards, activeNoteId, draftTitle, draftClass,
                 draftBody, taskTitle, taskClass, taskDue>>
  /\ UNCHANGED <<ignoreAutosaveRef, effectVars, guardTimers, alertMsg, uncaught, failed, saved,
                 rejects, draftCause, owner, pinGhost>>

\* onClick={() => saveNote(true)} ("Save now", disabled without an active note)
ManualSave ==
  /\ Op /\ UNCHANGED toolVars
  /\ Shown /\ activeNoteId # Null
  /\ saveNote(Closure("manual"), TRUE)
  /\ UNCHANGED <<user, notes, tasks, cards, activeNoteId, draftTitle, draftClass,
                 draftBody, taskTitle, taskClass, taskDue>>
  /\ UNCHANGED <<refVars, effectVars, guardTimers, store, clock, usedIds, alertMsg,
                 uncaught, failed, saved, rejects, draftCause, owner, pinGhost>>

NoOwners == [f \in {"title", "className", "body"} |-> NoOwner]

\* A write that is not saveNote's
Write(op, c, i, d, t, m, x) ==
  [op |-> op, user |-> user, coll |-> c, id |-> i, data |-> d, ts |-> t,
   merge |-> m, del |-> x, manual |-> FALSE, cause |-> "op", own |-> NoOwners,
   src |-> Empty]

\* uid() = Math.random().toString(16).slice(2) + Date.now().toString(16): an id
\* never given before, whose place among the ids of the documents of collection
\* c of the user is left to chance. Ids are integers ordered as the id strings are;
\* one id stands for every id that falls between the same two documents.
IdSpace == ((0 - MaxId)..MaxId) \ {Null}
FreeIds == IdSpace \ usedIds
Before(c, i) == {t \in DOMAIN View(user, c) : t < i}
Middle(S) == CHOOSE m \in S : Cardinality({k \in S : k < m}) = (Cardinality(S) - 1) \div 2
uid(c) == {i \in FreeIds : i = Middle({k \in FreeIds : Before(c, k) = Before(c, i)})}
\* The id uid() gives where ids are never compared: no two notes and no two
\* flashcards have the same value in the field their list is ordered by
NewId ==
  LET free == {i \in FreeIds : i > 0}
  IN IF free = {} THEN MaxId + 1 ELSE CHOOSE i \in free : \A k \in free : i <= k

\* createNote as far as its await
createNote ==
  /\ Op /\ UNCHANGED toolVars
  /\ Shown
  /\ CanWrite /\ NewId <= MaxId
  /\ pending' = Append(pending,
       Write("createNote", "notes", NewId,
             [title |-> NewNoteTitle, className |-> Empty, body |-> Empty,
              pinned |-> FALSE],
             {"createdAt", "updatedAt"}, FALSE, FALSE))
  /\ usedIds' = usedIds \cup {NewId}
  /\ UNCHANGED <<reactVars, refVars, effectVars, guardTimers, store, clock, ghostVars>>

\* A deleteNote that deletes whatever confirm() answers
deleteNoteUnasked(ok) ==
  /\ Op /\ UNCHANGED toolVars
  /\ Shown /\ activeNoteId # Null
  /\ Len(pending) < MaxPending
  /\ pending' = Append(pending,
       Write("deleteNote", "notes", activeNoteId, <<>>, {}, FALSE, TRUE))
  /\ UNCHANGED <<reactVars, refVars, effectVars, guardTimers, store, clock, usedIds,
                 ghostVars>>

\* deleteNote as far as its await; ok is the answer to confirm()
deleteNote(ok) ==
  /\ Op /\ UNCHANGED toolVars
  /\ Shown /\ activeNoteId # Null
  /\ IF ok
       THEN /\ Len(pending) < MaxPending
            /\ pending' = Append(pending,
                 Write("deleteNote", "notes", activeNoteId, <<>>, {}, FALSE, TRUE))
       ELSE UNCHANGED pending
  /\ UNCHANGED <<reactVars, refVars, effectVars, guardTimers, store, clock, usedIds,
                 ghostVars>>

\* What togglePin writes for the pinned field: !note.pinned, note being the row
\* of the mirrored list the button was rendered from
toggledPin(note) == ~Pinned(note)

\* togglePin(n) as far as its await, n the k-th row of the notes list; the Pin
\* button is rendered in the rows of filteredNotes only
togglePin(k) ==
  /\ Op /\ UNCHANGED toolVars
  /\ Shown
  /\ k \in 1..Len(filteredNotes(notes, noteSearch, classFilter))
  /\ CanWrite
  /\ LET n == filteredNotes(notes, noteSearch, classFilter)[k]
     IN /\ pending' = Append(pending,
             Write("togglePin", "notes", n.id, [pinned |-> toggledPin(n)],
                   {"updatedAt"}, TRUE, FALSE))
        /\ pinGhost' =
             IF pinGhost.count = 0 /\ n.id \in DOMAIN View(user, "notes")
               THEN [id |-> n.id, user |-> user, count |-> 1,
                     orig |-> Pinned(View(user, "notes")[n.id])]
             ELSE IF pinGhost.id = n.id /\ pinGhost.user = user /\ pinGhost.count < 3
               THEN [pinGhost EXCEPT !.count = @ + 1]
             ELSE pinGhost
  /\ UNCHANGED <<reactVars, refVars, effectVars, guardTimers, store, clock, usedIds,
                 alertMsg, uncaught, failed, saved, rejects, draftCause, owner, unsaved>>

\* ---------------------------------------------------------------- tasks
\* onChange of the task form inputs
EditTask(f, v) ==
  /\ Op /\ UNCHANGED toolVars
  /\ Shown
  /\ \/ f = "title" /\ v # taskTitle /\ taskTitle' = v /\ UNCHANGED <<taskClass, taskDue>>
     \/ f = "className" /\ v # taskClass /\ taskClass' = v
        /\ UNCHANGED <<taskTitle, taskDue>>
  /\ UNCHANGED <<user, notes, tasks, cards, activeNoteId, draftTitle, draftClass,
                 draftBody, saveState, busy>>
  /\ UNCHANGED <<refVars, effectVars, guardTimers, storeVars, ghostVars>>

\* onChange of the due date input (0 is the empty string)
EditDue(d) ==
  /\ Op /\ UNCHANGED toolVars
  /\ Shown
  /\ d # taskDue /\ taskDue' = d
  /\ UNCHANGED <<user, notes, tasks, cards, activeNoteId, draftTitle, draftClass,
                 draftBody, taskTitle, taskClass, saveState, busy>>
  /\ UNCHANGED <<refVars, effectVars, guardTimers, storeVars, ghostVars>>

\* addTask as far as its await, or its early return with an alert
addTask ==
  /\ Op /\ UNCHANGED toolVars
  /\ Shown
  /\ IF trim(taskTitle) = Empty \/ taskDue = 0
       THEN /\ alertMsg' = "Task title and due date required."
            /\ UNCHANGED <<pending, usedIds>>
       ELSE /\ CanWrite
            /\ \E i \in uid("tasks") :
                 /\ pending' = Append(pending,
                      Write("addTask", "tasks", i,
                            [title |-> trim(taskTitle), className |-> trim(taskClass),
                             due |-> taskDue, done |-> FALSE],
                            {"createdAt"}, FALSE, FALSE))
                 /\ usedIds' = usedIds \cup {i}
            /\ UNCHANGED alertMsg
  /\ UNCHANGED <<reactVars, refVars, effectVars, guardTimers, store, clock,
                 uncaught, failed, saved, rejects, draftCause, owner, unsaved, pinGhost>>

\* toggleTask(t) as far as its await, t the k-th row of the tasks list
toggleTask(k) ==
  /\ Op /\ UNCHANGED toolVars
  /\ Shown
  /\ k \in 1..Len(tasks)
  /\ Len(pending) < MaxPending
  /\ pending' = Append(pending,
       Write("toggleTask", "tasks", tasks[k].id, [done |-> ~tasks[k].done],
             {}, TRUE, FALSE))
  /\ UNCHANGED <<reactVars, refVars, effectVars, guardTimers, store, clock, usedIds,
                 ghostVars>>

\* deleteTask(t) as far as its await
deleteTask(k) ==
  /\ Op /\ UNCHANGED toolVars
  /\ Shown
  /\ k \in 1..Len(tasks)
  /\ Len(pending) < MaxPending
  /\ pending' = Append(pending,
       Write("deleteTask", "tasks", tasks[k].id, <<>>, {}, FALSE, TRUE))
  /\ UNCHANGED <<reactVars, refVars, effectVars, guardTimers, store, clock, usedIds,
                 ghostVars>>

\* ---------------------------------------------------------------- the store answers
Mirror(c) == CASE c = "notes" -> notes [] c = "tasks" -> tasks [] OTHER -> cards
Query(u, c) ==
  CASE c = "notes" -> notesQ(u) [] c = "tasks" -> tasksQ(u) [] OTHER -> cardsQ(u)

\* A listener on the written collection has been told of the local write before
\* the server answers it
ListenerCurrent(w) ==
  subs = w.user => delivered[w.coll] /\ Mirror(w.coll) = Query(w.user, w.coll)

TracksPin(w) ==
  pinGhost.count > 0 /\ pinGhost.id = w.id /\ pinGhost.user = w.user /\ w.coll = "notes"

\* The code after a resolved await, by operation
Resolved(w) ==
  CASE w.op = "saveNote" ->
         \* setSaveState("saved"); clearTimeout(ref); ref = setTimeout(idle, 1200)
         /\ saveState' = setState(saveState, "saved")
         /\ busy' = setState(busy, IF w.manual THEN Empty ELSE busy)
         /\ saveDebounceRef' = IdleTimer
         /\ UNCHANGED <<activeNoteId, depActive, taskTitle, taskClass, taskDue>>
    [] w.op = "createNote" ->
         /\ activeNoteId' = setState(activeNoteId, w.id)
         /\ depActive' = (Mounted /\ w.id # activeNoteId)
         /\ UNCHANGED <<saveState, busy, saveDebounceRef, taskTitle, taskClass, taskDue>>
    [] w.op = "deleteNote" ->
         /\ activeNoteId' = setState(activeNoteId, Null)
         /\ depActive' = (Mounted /\ activeNoteId # Null)
         /\ UNCHANGED <<saveState, busy, saveDebounceRef, taskTitle, taskClass, taskDue>>
    [] w.op = "addTask" ->
         /\ taskTitle' = setState(taskTitle, Empty)
         /\ taskClass' = setState(taskClass, Empty)
         /\ taskDue' = setState(taskDue, 0)
         /\ UNCHANGED <<saveState, busy, saveDebounceRef, activeNoteId, depActive>>
    [] OTHER ->
         UNCHANGED <<saveState, busy, saveDebounceRef, activeNoteId, depActive,
                     taskTitle, taskClass, taskDue>>

\* The last accepted saveNote write and the draft body it was made from, until
\* another accepted write replaces the body of that note or deletes the note
savedAfter(w) ==
  IF w.op = "saveNote"
    THEN [on |-> TRUE, user |-> w.user, id |-> w.id, body |-> w.src]
  ELSE IF /\ saved.on /\ w.user = saved.user /\ w.coll = "notes" /\ w.id = saved.id
          /\ (w.del \/ "body" \in DOMAIN w.data)
    THEN NoSaved
  ELSE saved

\* The server accepts the oldest queued write
Ack ==
  /\ UNCHANGED <<ops, toolVars>>
  /\ Quiet
  /\ pending # <<>> /\ Head(pending).op # "makeFlashcards"
  /\ ListenerCurrent(Head(pending))
  /\ LET w == Head(pending)
         t == IF w.ts = {} THEN clock ELSE clock + 1
     IN /\ store' = [store EXCEPT ![w.user][w.coll] = ApplyWrite(@, w, t)]
        /\ clock' = t
        /\ pending' = Tail(pending)
        /\ Resolved(w)
        /\ saved' = savedAfter(w)
        /\ pinGhost' = IF TracksPin(w) /\ w.op = "deleteNote"
                         THEN [pinGhost EXCEPT !.count = 3] ELSE pinGhost
  /\ UNCHANGED <<user, notes, tasks, cards, draftTitle, draftClass, draftBody>>
  /\ UNCHANGED <<ignoreAutosaveRef, depUser, depDraft, autosaveCleanup, subs,
                 delivered, guardTimers, usedIds, alertMsg, uncaught, failed, rejects, draftCause,
                 owner, unsaved>>

\* The code after a rejected await, by operation: a catch block, or none
Rejected(w) ==
  CASE w.op = "saveNote" ->
         /\ saveState' = setState(saveState, "error")
         /\ busy' = setState(busy, IF w.manual THEN Empty ELSE busy)
         /\ alertMsg' = "Save failed"
         /\ failed' = [on |-> TRUE, user |-> w.user, id |-> w.id, data |-> w.data,
                       ops |-> ops]
         /\ UNCHANGED <<uncaught, saved>>
    [] w.op = "addTask" ->
         /\ alertMsg' = "Task save failed"
         /\ UNCHANGED <<saveState, busy, uncaught, failed, saved>>
    [] OTHER ->
         /\ uncaught' = uncaught \cup {w.op}
         /\ UNCHANGED <<saveState, busy, alertMsg, failed, saved>>

\* The server refuses the oldest queued write
Reject ==
  /\ UNCHANGED <<ops, toolVars>>
  /\ Quiet
  /\ pending # <<>> /\ Head(pending).op # "makeFlashcards"
  /\ ListenerCurrent(Head(pending))
  /\ LET w == Head(pending)
     IN /\ pending' = Tail(pending)
        /\ Rejected(w)
        /\ pinGhost' = IF TracksPin(w) THEN [pinGhost EXCEPT !.count = 3] ELSE pinGhost
  /\ rejects' = rejects + 1
  /\ UNCHANGED <<user, notes, tasks, cards, activeNoteId, draftTitle, draftClass,
                 draftBody, taskTitle, taskClass, taskDue>>
  /\ UNCHANGED <<refVars, effectVars, guardTimers, store, clock, usedIds,
                 draftCause, owner, unsaved>>

\* ---------------------------------------------------------------- flashcards
viewVars == <<noteSearch, classFilter, calMonth, view>>
httpVars == <<req, res>>
studyVars == <<studyMode, studyIndex, studyFlipped, studyOnlyThisNote>>
speechVars == <<transcript, isTranscribing, speechSupported, rec, speechLog>>

GeneratingBusy ==
  <<"G", "e", "n", "e", "r", "a", "t", "i", "n", "g", " ", "f", "l", "a", "s", "h",
    "c", "a", "r", "d", "s", "...">>

\* JSON values as the page receives them
Undefined == [t |-> "undefined"]
JsNull == [t |-> "null"]
Str(s) == [t |-> "string", v |-> s]
Num(n) == [t |-> "number", v |-> n]
Obj(p) == [t |-> "object", p |-> p]
Arr(a) == [t |-> "array", a |-> a]

\* Reading a property of null or undefined throws a TypeError
Throws(c) == c.t \in {"null", "undefined"}
\* c.f for a value c that is not null: a missing property, or a property of a
\* string or a number, is undefined
Prop(c, f) == IF c.t = "object" /\ f \in DOMAIN c.p THEN c.p[f] ELSE Undefined
Truthy(v) ==
  CASE v.t = "string" -> v.v # Empty
    [] v.t = "number" -> v.v # 0
    [] v.t \in {"object", "array"} -> TRUE
    [] OTHER -> FALSE
\* x || y
Or(x, y) == IF Truthy(x) THEN x ELSE y

DigitChars == <<"0", "1", "2", "3", "4", "5", "6", "7", "8", "9">>
RECURSIVE Digits(_)
Digits(n) ==
  IF n < 10 THEN <<DigitChars[n + 1]>> ELSE Digits(n \div 10) \o <<DigitChars[(n % 10) + 1]>>
ObjectText ==
  <<"[", "o", "b", "j", "e", "c", "t", " ", "O", "b", "j", "e", "c", "t", "]">>
\* String(v) for a string, a natural number or a plain object
String(v) ==
  CASE v.t = "string" -> v.v
    [] v.t = "number" -> Digits(v.v)
    [] OTHER -> ObjectText

\* s.slice(0, n) of a string or an array
slice(s, n) == SubSeq(s, 1, IF Len(s) < n THEN Len(s) ELSE n)

\* A card text that is not cut
cardTextWhole(v, n) == String(Or(v, Str(Empty)))

\* String(v || "").slice(0, n)
cardText(v, n) == slice(String(Or(v, Str(Empty))), n)

\* A list of candidates that is not cut
toSaveAll(arr) == arr

\* arr.slice(0, 25)
toSave(arr) == slice(arr, 25)

\* Array.isArray(data.cards) ? data.cards : [] for a response body that parsed
cardsOf(data) ==
  LET c == Prop(data, "cards") IN IF c.t = "array" THEN c.a ELSE <<>>

\* fetch rejects, the status is not ok, the body is not JSON, or the body is the
\* JSON value null
Fails(r) == r.net = "down" \/ ~r.ok \/ ~r.json \/ Throws(r.data)
Response(d) == [net |-> "up", ok |-> TRUE, json |-> TRUE, data |-> d]

\* The document written for candidate c by the generation g
cardWrite(g, c, i) ==
  [op |-> "makeFlashcards", user |-> g.user, coll |-> "flashcards", id |-> i,
   data |-> [noteId |-> g.noteId, noteTitle |-> OrText(g.noteTitle, Untitled),
             question |-> cardText(Prop(c, "question"), 500),
             answer |-> cardText(Prop(c, "answer"), 1500)],
   ts |-> {"createdAt"}, merge |-> FALSE, del |-> FALSE, manual |-> FALSE,
   cause |-> "op", own |-> NoOwners, gn |-> g.n]

\* s without its element at place j
Without(s, j) == SubSeq(s, 1, j - 1) \o SubSeq(s, j + 1, Len(s))

\* catch and finally of makeFlashcards, for the generation at place j
genCaught(j, gh, q) ==
  /\ alertMsg' = "Flashcards failed. (Check /api/flashcards + OPENAI_API_KEY)"
  /\ busy' = setState(busy, Empty)
  /\ gen' = Without(gen, j)
  /\ genGhost' = [genGhost EXCEPT !.h[gen[j].n] = [gh EXCEPT !.report = "failed"]]
  /\ pending' = q
  /\ UNCHANGED usedIds

\* The loop of makeFlashcards from candidate k up to its next await, or to the
\* end, for the generation at place j, whose closure is g
genStep(j, g, k, gh, q) ==
  IF k > Len(g.toSave)
    THEN /\ alertMsg' = "Saved flashcards."
         /\ busy' = setState(busy, Empty)
         /\ gen' = Without(gen, j)
         /\ genGhost' = [genGhost EXCEPT !.h[g.n] =
                           [gh EXCEPT !.report = "saved", !.count = Len(g.toSave)]]
         /\ pending' = q
         /\ UNCHANGED usedIds
    ELSE IF Throws(g.toSave[k])
      THEN genCaught(j, gh, q)
      ELSE /\ pending' = Append(q, cardWrite(g, g.toSave[k], NewId))
           /\ usedIds' = usedIds \cup {NewId}
           /\ gen' = [gen EXCEPT ![j] = [g EXCEPT !.k = k]]
           /\ genGhost' = [genGhost EXCEPT !.h[g.n] =
                             [gh EXCEPT !.issued = @ \cup {NewId}]]
           /\ UNCHANGED <<alertMsg, busy>>

\* makeFlashcards as far as its fetch; the button is disabled on a blank body, and
\* the ids and timestamps the cards of the generation may take are left
makeFlashcards ==
  /\ Op
  /\ Shown
  /\ genGhost.n < MaxGenerations
  /\ trim(draftBody) # Empty /\ activeNoteId # Null
  /\ NewId + 25 * (Len(gen) + 1) <= MaxId
  /\ clock + Len(pending) + 25 * (Len(gen) + 1) < MaxClock
  /\ busy' = GeneratingBusy
  /\ gen' = Append(gen, [n |-> genGhost.n + 1, st |-> "fetch", user |-> user,
                         noteId |-> activeNoteId, noteTitle |-> draftTitle,
                         text |-> draftBody, toSave |-> <<>>, k |-> 0])
  /\ genGhost' = [n |-> genGhost.n + 1,
                  h |-> Append(genGhost.h,
                          [user |-> user, noteId |-> activeNoteId,
                           before |-> DOMAIN View(user, "flashcards"),
                           arr |-> <<>>, ids |-> <<>>, issued |-> {},
                           report |-> "none", count |-> 0])]
  /\ UNCHANGED <<user, notes, tasks, cards, activeNoteId, draftTitle, draftClass,
                 draftBody, taskTitle, taskClass, taskDue, saveState>>
  /\ UNCHANGED <<refVars, effectVars, guardTimers, storeVars, ghostVars>>
  /\ UNCHANGED <<viewVars, speechVars, sumReq, httpVars, studyVars>>

\* The answer of /api/flashcards to the generation at place j arrives
FlashcardsResponse(j, r) ==
  /\ UNCHANGED ops
  /\ Quiet
  /\ j \in 1..Len(gen) /\ gen[j].st = "fetch"
  /\ LET g == gen[j]
         h == genGhost.h[g.n]
     IN IF Fails(r)
          THEN genCaught(j, h, pending)
          ELSE LET arr == cardsOf(r.data)
                   gh == [h EXCEPT !.arr = arr]
               IN IF Len(arr) = 0
                    THEN /\ alertMsg' = "No cards returned."
                         /\ busy' = setState(busy, Empty)
                         /\ gen' = Without(gen, j)
                         /\ genGhost' = [genGhost EXCEPT !.h[g.n] =
                                           [gh EXCEPT !.report = "empty"]]
                         /\ UNCHANGED <<pending, usedIds>>
                    ELSE genStep(j, [g EXCEPT !.st = "save", !.toSave = toSave(arr)],
                                 1, gh, pending)
  /\ UNCHANGED <<user, notes, tasks, cards, activeNoteId, draftTitle, draftClass,
                 draftBody, taskTitle, taskClass, taskDue, saveState>>
  /\ UNCHANGED <<refVars, effectVars, guardTimers, store, clock>>
  /\ UNCHANGED <<uncaught, failed, saved, rejects, draftCause, owner, unsaved, pinGhost>>
  /\ UNCHANGED <<viewVars, speechVars, sumReq, httpVars, studyVars>>

\* The place in gen of the generation that awaits the write w
Awaiter(w) == CHOOSE j \in 1..Len(gen) : gen[j].n = w.gn

\* The server accepts the card awaited by a generation, whose loop goes on
AckCard ==
  /\ UNCHANGED ops
  /\ Quiet
  /\ pending # <<>> /\ Head(pending).op = "makeFlashcards"
  /\ ListenerCurrent(Head(pending))
  /\ LET w == Head(pending)
         j == Awaiter(w)
     IN /\ store' = [store EXCEPT ![w.user][w.coll] = ApplyWrite(@, w, clock + 1)]
        /\ clock' = clock + 1
        /\ genStep(j, gen[j], gen[j].k + 1,
                   [genGhost.h[w.gn] EXCEPT !.ids = Append(@, w.id)], Tail(pending))
  /\ UNCHANGED <<user, notes, tasks, cards, activeNoteId, draftTitle, draftClass,
                 draftBody, taskTitle, taskClass, taskDue, saveState>>
  /\ UNCHANGED <<refVars, effectVars, guardTimers>>
  /\ UNCHANGED <<uncaught, failed, saved, rejects, draftCause, owner, unsaved, pinGhost>>
  /\ UNCHANGED <<viewVars, speechVars, sumReq, httpVars, studyVars>>

\* The server refuses the card awaited by a generation
RejectCard ==
  /\ UNCHANGED ops
  /\ Quiet
  /\ pending # <<>> /\ Head(pending).op = "makeFlashcards"
  /\ ListenerCurrent(Head(pending))
  /\ LET w == Head(pending)
     IN genCaught(Awaiter(w), genGhost.h[w.gn], Tail(pending))
  /\ rejects' = rejects + 1
  /\ UNCHANGED <<user, notes, tasks, cards, activeNoteId, draftTitle, draftClass,
                 draftBody, taskTitle, taskClass, taskDue, saveState>>
  /\ UNCHANGED <<refVars, effectVars, guardTimers, store, clock>>
  /\ UNCHANGED <<uncaught, failed, saved, draftCause, owner, unsaved, pinGhost>>
  /\ UNCHANGED <<viewVars, speechVars, sumReq, httpVars, studyVars>>

\* ---------------------------------------------------------------- summarize
SummarizingBusy ==
  <<"S", "u", "m", "m", "a", "r", "i", "z", "i", "n", "g", "...">>
SummaryOpen ==
  <<"=", "=", "=", " ", "A", "I", " ", "S", "U", "M", "M", "A", "R", "Y", " ", "=",
    "=", "=">>
SummaryClose ==
  <<"=", "=", "=", " ", "/", "S", "U", "M", "M", "A", "R", "Y", " ", "=", "=", "=">>
NullText == <<"n", "u", "l", "l">>
\* ${v} in a template literal
TemplateText(v) ==
  CASE v.t = "undefined" -> UndefinedText
    [] v.t = "null" -> NullText
    [] OTHER -> String(v)

\* The text the summary is appended to, taken from the render that started the
\* request
summaryBaseStale(r, prev) == r.text

\* The text the summary is appended to: prev of the functional update
summaryBase(r, prev) == prev

\* `${prev}\n\n=== AI SUMMARY ===\n${data.summary}\n=== /SUMMARY ===\n`
withSummary(prev, summary) ==
  prev \o <<"\n", "\n">> \o SummaryOpen \o <<"\n">> \o TemplateText(summary)
       \o <<"\n">> \o SummaryClose \o <<"\n">>

\* What summarize and importPdf leave alone when they start and when they end
AppendOnly ==
  /\ UNCHANGED <<user, notes, tasks, cards, activeNoteId, draftTitle, draftClass,
                 taskTitle, taskClass, taskDue, saveState>>
  /\ UNCHANGED <<ignoreAutosaveRef, depUser, depActive, guardTimers, storeVars>>
  /\ UNCHANGED <<failed, saved, rejects, unsaved, pinGhost>>
  /\ UNCHANGED <<transcript, isTranscribing, speechSupported, speechLog>>
  /\ UNCHANGED <<viewVars, gen, genGhost, httpVars, studyVars>>

\* A request is sent: nothing but busy changes
Asked(q) ==
  /\ sumReq' = [sumReq EXCEPT !.flight = Append(@, q)]
  /\ UNCHANGED <<draftBody, depDraft, draftCause, owner, alertMsg, uncaught>>
  /\ UNCHANGED <<saveDebounceRef, autosaveCleanup, subs, delivered, rec>>
  /\ AppendOnly

\* The request at place j of those in flight is answered with r
Answered(j, r) ==
  sumReq' = [flight |-> SubSeq(sumReq.flight, 1, j - 1)
                          \o SubSeq(sumReq.flight, j + 1, Len(sumReq.flight)),
             last |-> [on |-> TRUE, prev |-> draftBody, resp |-> r] @@ sumReq.flight[j]]

\* setDraftBody(updater) after an await: the body becomes v
Appended(v) ==
  /\ draftBody' = v
  /\ depDraft' = TRUE
  /\ draftCause' = "edit"
  /\ owner' = [owner EXCEPT !["body"] = Me]
  /\ UNCHANGED <<saveDebounceRef, autosaveCleanup, subs, delivered, rec, uncaught>>

\* catch (e) { alert(...) } of summarize and importPdf
AppendFailed(msg) ==
  /\ alertMsg' = msg
  /\ busy' = Empty
  /\ UNCHANGED <<draftBody, depDraft, draftCause, owner>>
  /\ UNCHANGED <<saveDebounceRef, autosaveCleanup, subs, delivered, rec, uncaught>>

\* An updater throws while React renders: with no error boundary the page is
\* unmounted, every effect cleanup runs (the listeners are detached, the timer of
\* the autosave effect is cleared, the speech effect calls rec.stop(), which
\* ends a recognizer that is listening) and the state of the last render is what
\* was last shown
RenderThrows ==
  /\ uncaught' = uncaught \cup {"render"}
  /\ subs' = NoUser
  /\ delivered' = [c \in Collections |-> FALSE]
  /\ saveDebounceRef' = IF autosaveCleanup THEN NoTimer ELSE saveDebounceRef
  /\ autosaveCleanup' = FALSE
  /\ rec' = IF rec = "listening" THEN "stopping" ELSE rec
  /\ UNCHANGED <<draftBody, depDraft, draftCause, owner, alertMsg, busy>>

\* The rest of summarize or importPdf when the page has been unmounted: the
\* state setters do nothing, the alert of the catch block is still shown
AfterUnmount(fails, msg) ==
  /\ alertMsg' = IF fails THEN msg ELSE alertMsg
  /\ UNCHANGED <<busy, draftBody, depDraft, draftCause, owner>>
  /\ UNCHANGED <<saveDebounceRef, autosaveCleanup, subs, delivered, rec, uncaught>>

\* summarize as far as its fetch (the button is disabled while the body is blank)
summarize ==
  /\ Op
  /\ Shown
  /\ trim(draftBody) # Empty
  /\ busy' = SummarizingBusy
  /\ Asked([kind |-> "summarize", text |-> draftBody, id |-> activeNoteId])

\* The answer of /api/summarize to the request at place j arrives. data.summary
\* is read inside the updater, so a JSON body null throws in the render, not in
\* the try
SummarizeResponse(j, r) ==
  /\ UNCHANGED ops
  /\ Quiet
  /\ j \in 1..Len(sumReq.flight) /\ sumReq.flight[j].kind = "summarize"
  /\ Answered(j, r)
  /\ IF ~Mounted
       THEN AfterUnmount(r.net = "down" \/ ~r.ok \/ ~r.json,
                         "Summarize failed. (Check /api/summarize + OPENAI_API_KEY)")
     ELSE IF r.net = "down" \/ ~r.ok \/ ~r.json
       THEN AppendFailed("Summarize failed. (Check /api/summarize + OPENAI_API_KEY)")
     ELSE IF Throws(r.data)
       THEN RenderThrows
       ELSE /\ Appended(withSummary(summaryBase(sumReq.flight[j], draftBody),
                                    Prop(r.data, "summary")))
            /\ busy' = Empty
            /\ UNCHANGED alertMsg
  /\ AppendOnly

\* ---------------------------------------------------------------- import PDF
PdfOpen == <<"-", "-", "-", " ", "P", "D", "F", " ", "I", "M", "P", "O", "R", "T", ":", " ">>
PdfClose == <<"-", "-", "-", " ", "/", "P", "D", "F", " ", "-", "-", "-">>
ExtractingBusy ==
  <<"E", "x", "t", "r", "a", "c", "t", "i", "n", "g", " ", "P", "D", "F", "...">>

\* `\n\n${header}\n${text}\n--- /PDF ---\n` with header `--- PDF IMPORT: ${file.name} ---`
pdfBlock(name, text) ==
  <<"\n", "\n">> \o PdfOpen \o name \o <<" ", "-", "-", "-", "\n">> \o text
    \o <<"\n">> \o PdfClose \o <<"\n">>

\* prev ? prev + block : block.trimStart()
withPdf(prev, name, text) ==
  IF prev # Empty THEN prev \o pdfBlock(name, text) ELSE trimStart(pdfBlock(name, text))

\* importPdf(file) as far as its await, a file having been chosen
importPdf(name) ==
  /\ Op
  /\ Shown
  /\ busy' = ExtractingBusy
  /\ Asked([kind |-> "importPdf", name |-> name, id |-> activeNoteId])

\* extractPdfText answers the import at place j: with the text of the file, or
\* by rejecting
PdfResponse(j, r) ==
  /\ UNCHANGED ops
  /\ Quiet
  /\ j \in 1..Len(sumReq.flight) /\ sumReq.flight[j].kind = "importPdf"
  /\ Answered(j, r)
  /\ IF ~Mounted
       THEN AfterUnmount(~r.ok, "PDF import failed.")
     ELSE IF ~r.ok
       THEN AppendFailed("PDF import failed.")
       ELSE /\ Appended(withPdf(draftBody, sumReq.flight[j].name, r.text))
            /\ busy' = Empty
            /\ UNCHANGED alertMsg
  /\ AppendOnly

\* ---------------------------------------------------------------- search and filter

\* The render after a change of the search box or the folder filter; filter
\* builds a new array, so sort leaves the mirrored list alone
NotesView(search, cf) ==
  /\ view' = [fn |-> "filteredNotes", value |-> filteredNotes(notes, search, cf)]
  /\ notes' = notes
  /\ UNCHANGED <<user, tasks, cards, activeNoteId, draftTitle, draftClass, draftBody,
                 taskTitle, taskClass, taskDue, saveState, busy>>
  /\ UNCHANGED <<refVars, effectVars, guardTimers, storeVars, ghostVars>>
  /\ UNCHANGED <<calMonth, speechVars, gen, sumReq, genGhost, httpVars, studyVars>>

\* The folder list offered by the filter: "ALL" and the trimmed, non-empty folder
\* labels of the mirrored notes (the order of the options is left out)
classFolders(list) ==
  {ALL} \cup ({trim(Field(list[k], "className")) : k \in 1..Len(list)} \ {Empty})

\* onChange={(e) => setNoteSearch(e.target.value)}; the search box is part of
\* the page of a signed-in user
SearchNotes(v) ==
  /\ Op
  /\ Shown
  /\ v # noteSearch /\ noteSearch' = v
  /\ UNCHANGED classFilter
  /\ NotesView(v, classFilter)

\* onChange={(e) => setClassFilter(e.target.value)}: one of the options of the
\* select, which is part of the page of a signed-in user
FilterNotes(f) ==
  /\ Op
  /\ Shown
  /\ f \in classFolders(notes)
  /\ f # classFilter /\ classFilter' = f
  /\ UNCHANGED noteSearch
  /\ NotesView(noteSearch, f)

\* ---------------------------------------------------------------- calendar map
\* A list that holds the new task only
pushAlone(list, t) == <<t>>

\* map.get(t.due).push(t)
push(list, t) == Append(list, t)

\* The loop of tasksByDate: tasks without a due date are skipped ("" is 0 here)
RECURSIVE tasksByDateFrom(_, _)
tasksByDateFrom(map, list) ==
  IF list = <<>> THEN map
  ELSE LET t == Head(list)
       IN tasksByDateFrom(
            IF t.due = 0 THEN map
            ELSE IF t.due \in DOMAIN map
              THEN [map EXCEPT ![t.due] = push(@, t)]
              ELSE (t.due :> push(<<>>, t)) @@ map,
            Tail(list))

\* useMemo(() => { const map = new Map(); ... return map; }, [tasks])
tasksByDate(list) == tasksByDateFrom(NoDocs, list)

\* The render that computes the calendar map from the mirrored tasks
TasksView ==
  /\ UNCHANGED ops
  /\ view.fn # "tasksByDate"
  /\ view' = [fn |-> "tasksByDate", value |-> tasksByDate(tasks)]
  /\ UNCHANGED <<reactVars, refVars, effectVars, guardTimers, storeVars, ghostVars>>
  /\ UNCHANGED <<noteSearch, classFilter, calMonth, speechVars, gen, sumReq, genGhost, httpVars, studyVars>>

\* ---------------------------------------------------------------- calendar grid
\* The time value of a Date at local midnight, in days since 1970-01-01, for year
\* y, month m (0 = January; any integer) and day of month d (any integer), as
\* the Date constructor and setDate normalise them
DayNumber(y, m, d) ==
  LET yy == y + ((m - (m % 12)) \div 12)
      mm == (m % 12) + 1
      ya == IF mm <= 2 THEN yy - 1 ELSE yy
      era == ya \div 400
      yoe == ya - era * 400
      doy == ((153 * (IF mm > 2 THEN mm - 3 ELSE mm + 9) + 2) \div 5) + d - 1
      doe == yoe * 365 + (yoe \div 4) - (yoe \div 100) + doy
  IN era * 146097 + doe - 719468

\* getFullYear, getMonth and getDate of the Date whose time value is day n
DateOf(n) ==
  LET z == n + 719468
      era == z \div 146097
      doe == z - era * 146097
      yoe == (doe - (doe \div 1460) + (doe \div 36524) - (doe \div 146096)) \div 365
      doy == doe - (365 * yoe + (yoe \div 4) - (yoe \div 100))
      mp == (5 * doy + 2) \div 153
      dd == doy - ((153 * mp + 2) \div 5) + 1
      mm == IF mp < 10 THEN mp + 3 ELSE mp - 9
      yy == yoe + era * 400 + (IF mm <= 2 THEN 1 ELSE 0)
  IN Date(yy, mm - 1, dd)

\* A week that starts on Monday
getDayMonday(date) == (DayNumber(date.y, date.m, date.d) + 3) % 7

\* date.getDay(): Sunday = 0 (1970-01-01 was a Thursday)
getDay(date) == (DayNumber(date.y, date.m, date.d) + 4) % 7

\* date.setDate(k) for any integer k
setDate(date, k) == DateOf(DayNumber(date.y, date.m, k))

\* addMonths: new Date(date.getFullYear(), date.getMonth() + delta, 1)
addMonths(date, delta) == DateOf(DayNumber(date.y, date.m + delta, 1))

buildMonthGrid(date) ==
  LET first == DateOf(DayNumber(date.y, date.m, 1))
      startDow == getDay(first)
      start == setDate(first, first.d - startDow)
  IN [i \in 1..42 |-> setDate(start, start.d + (i - 1))]

\* The render after the calendar month has changed
GridView(month) ==
  /\ view' = [fn |-> "buildMonthGrid", value |-> buildMonthGrid(month)]
  /\ UNCHANGED <<reactVars, refVars, effectVars, guardTimers, storeVars, ghostVars>>
  /\ UNCHANGED <<noteSearch, classFilter, speechVars, gen, sumReq, genGhost, httpVars, studyVars>>

\* onClick={() => setCalMonth((d) => addMonths(d, -1))} and +1; the calendar is
\* part of the page of a signed-in user
StepMonth(delta) ==
  /\ Op
  /\ Shown
  /\ calMonth' = addMonths(calMonth, delta)
  /\ GridView(calMonth')

\* onClick={() => setCalMonth(new Date())}
TodayMonth ==
  /\ Op
  /\ Shown
  /\ calMonth' = Today
  /\ GridView(Today)

\* ---------------------------------------------------------------- transcription
\* How long the transcript may grow
MaxTranscript == 4

TranscriptOpen ==
  <<"-", "-", "-", " ", "T", "R", "A", "N", "S", "C", "R", "I", "P", "T", " ", "-",
    "-", "-">>
TranscriptClose ==
  <<"-", "-", "-", " ", "/", "T", "R", "A", "N", "S", "C", "R", "I", "P", "T", " ",
    "-", "-", "-">>

\* What happened last in the transcript panel
Logged(kind, results) ==
  speechLog' = [kind |-> kind, flip |-> ~speechLog.flip, results |-> results]

\* Everything that leaves the transcript panel alone
SpeechFrame ==
  /\ UNCHANGED <<reactVars, refVars, effectVars, guardTimers, storeVars, ghostVars>>
  /\ UNCHANGED <<viewVars, gen, sumReq, genGhost, httpVars, studyVars>>

\* The text of every result, final or not
RECURSIVE allText(_)
allText(results) ==
  IF results = <<>> THEN Empty
  ELSE Head(results).transcript \o <<" ">> \o allText(Tail(results))

\* The loop of rec.onresult over event.results from event.resultIndex
RECURSIVE finalText(_)
finalText(results) ==
  IF results = <<>> THEN Empty
  ELSE (IF Head(results).isFinal THEN Head(results).transcript \o <<" ">> ELSE Empty)
         \o finalText(Tail(results))

\* rec.onresult
RecResult(results) ==
  /\ UNCHANGED ops
  /\ rec \in {"listening", "stopping"}
  /\ Len(transcript) + Len(finalText(results)) <= MaxTranscript
  /\ transcript' = setState(transcript,
                              IF finalText(results) # Empty
                                THEN transcript \o finalText(results) ELSE transcript)
  /\ Logged("result", results)
  /\ UNCHANGED <<isTranscribing, speechSupported, rec>>
  /\ SpeechFrame

\* rec.onerror; the recognizer then ends
RecError ==
  /\ UNCHANGED ops
  /\ rec \in {"listening", "stopping"}
  /\ isTranscribing' = setState(isTranscribing, FALSE)
  /\ rec' = "stopping"
  /\ Logged("error", <<>>)
  /\ UNCHANGED <<transcript, speechSupported>>
  /\ SpeechFrame

\* rec.onend
RecEnd ==
  /\ UNCHANGED ops
  /\ rec \in {"listening", "stopping"}
  /\ isTranscribing' = setState(isTranscribing, FALSE)
  /\ rec' = "idle"
  /\ Logged("end", <<>>)
  /\ UNCHANGED <<transcript, speechSupported>>
  /\ SpeechFrame

\* startTranscription (Start is disabled when unsupported or transcribing);
\* start() throws while the recognizer has not ended, and the flag is set anyway
startTranscription ==
  /\ Op
  /\ Shown
  /\ speechSupported /\ ~isTranscribing
  /\ rec' = IF rec = "idle" THEN "listening" ELSE rec
  /\ isTranscribing' = TRUE
  /\ Logged("start", <<>>)
  /\ UNCHANGED <<transcript, speechSupported>>
  /\ SpeechFrame

\* stopTranscription (Stop is disabled unless transcribing)
stopTranscription ==
  /\ Op
  /\ Shown
  /\ speechSupported /\ isTranscribing
  /\ rec' = IF rec = "listening" THEN "stopping" ELSE rec
  /\ isTranscribing' = FALSE
  /\ Logged("stop", <<>>)
  /\ UNCHANGED <<transcript, speechSupported>>
  /\ SpeechFrame

\* onChange={(e) => setTranscript(e.target.value)}
EditTranscript(v) ==
  /\ Op
  /\ Shown
  /\ v # transcript /\ transcript' = v
  /\ Logged("edit", <<>>)
  /\ UNCHANGED <<isTranscribing, speechSupported, rec>>
  /\ SpeechFrame

\* onClick={() => setTranscript("")} (disabled while the transcript is blank)
ClearTranscript ==
  /\ Op
  /\ Shown
  /\ trim(transcript) # Empty
  /\ transcript' = Empty
  /\ Logged("clear", <<>>)
  /\ UNCHANGED <<isTranscribing, speechSupported, rec>>
  /\ SpeechFrame

\* insertTranscriptIntoNote (Insert is disabled without a transcript or a note)
insertTranscriptIntoNote ==
  /\ Op
  /\ Shown /\ activeNoteId # Null
  /\ trim(transcript) # Empty
  /\ draftBody' = draftBody \o <<"\n", "\n">> \o TranscriptOpen \o <<"\n">>
                    \o trim(transcript) \o <<"\n">> \o TranscriptClose \o <<"\n">>
  /\ depDraft' = TRUE
  /\ draftCause' = "edit"
  /\ owner' = [owner EXCEPT !["body"] = Me]
  /\ Logged("insert", <<>>)
  /\ UNCHANGED <<transcript, isTranscribing, speechSupported, rec>>
  /\ UNCHANGED <<user, notes, tasks, cards, activeNoteId, draftTitle, draftClass,
                 taskTitle, taskClass, taskDue, saveState, busy>>
  /\ UNCHANGED <<refVars, depUser, depActive, autosaveCleanup, subs, delivered,
                 guardTimers, storeVars>>
  /\ UNCHANGED <<alertMsg, uncaught, failed, saved, rejects, unsaved, pinGhost>>
  /\ UNCHANGED <<viewVars, gen, sumReq, genGhost, httpVars, studyVars>>

\* ---------------------------------------------------------------- api handlers
\* res.status(s).json(b)
Sent(s, b) == [status |-> s, body |-> b]
MethodNotAllowed == <<"M", "e", "t", "h", "o", "d">>
TextTooShort == <<"s", "h", "o", "r", "t">>
AiError == <<"A", "I">>
ErrorBody(e) == Obj([error |-> Str(e)])

\* v.length: of a string or an array its length, of an object its property
lengthOf(v) ==
  CASE v.t = "string" -> Num(Len(v.v))
    [] v.t = "array" -> Num(Len(v.a))
    [] OTHER -> Prop(v, "length")

\* a < n for a number n: false unless a is a number below n (undefined is NaN)
lessThan(a, n) == a.t = "number" /\ a.v < n

\* !text || text.length < 10
tooShort(text) == ~Truthy(text) \/ lessThan(lengthOf(text), 10)

\* The JSON texts the language model is taken to answer with
JsonNullText == <<"n", "u", "l", "l">>
JsonEmptyObject == <<"{", "}">>
JsonNoCards == <<"{", "c", ":", "[", "]", "}">>
JsonOneCard == <<"{", "c", ":", "[", "{", "}", "]", "}">>

\* JSON.parse(content) on these texts (c abbreviates "cards"); any other text is
\* a SyntaxError; a null content is converted to the text null first
JsonFails(content) ==
  /\ content.t # "null"
  /\ ~(content.t = "string"
       /\ content.v \in {JsonNullText, JsonEmptyObject, JsonNoCards, JsonOneCard})
JsonParse(content) ==
  CASE content.t = "null" -> JsNull
    [] content.v = JsonNullText -> JsNull
    [] content.v = JsonEmptyObject -> Obj([f \in {} |-> Undefined])
    [] content.v = JsonNoCards -> Obj([cards |-> Arr(<<>>)])
    [] OTHER -> Obj([cards |-> Arr(<<Obj([f \in {} |-> Undefined])>>)])

\* res.json drops a property whose value is undefined
JsonBody(f, v) == IF v.t = "undefined" THEN Obj([g \in {} |-> Undefined])
                  ELSE Obj([g \in {f} |-> v])

\* catch (err) { res.status(500).json({ error: "AI error" }) } after n model calls
caught(n) == [done |-> TRUE, sent |-> <<Sent(500, ErrorBody(AiError))>>, calls |-> n]

\* The part both handlers share, up to the model call: the method check outside
\* the try, then the client constructor, const { text } = req.body, the length
\* check. early is the answer given before the model is called, if any
early(r) ==
  IF r.method # "POST"
    THEN [done |-> TRUE, sent |-> <<Sent(405, ErrorBody(MethodNotAllowed))>>,
          calls |-> 0]
  ELSE IF r.client = "throws" THEN caught(0)
  ELSE IF Throws(r.body) THEN caught(0)
  ELSE IF tooShort(Prop(r.body, "text"))
    THEN [done |-> TRUE, sent |-> <<Sent(400, ErrorBody(TextTooShort))>>, calls |-> 0]
  ELSE NoAnswer

\* completion.choices[0].message.content throws when there is no first choice
NoContent(r) == r.api.outcome = "rejects" \/ r.api.choices = <<>>
content(r) == r.api.choices[1]

\* handler of api/flashcards.js
flashcardsAnswer(r) ==
  IF early(r).done THEN early(r)
  ELSE IF NoContent(r) THEN caught(1)
  ELSE IF JsonFails(content(r)) THEN caught(1)
  ELSE IF Throws(JsonParse(content(r))) THEN caught(1)
  ELSE [done |-> TRUE,
        sent |-> <<Sent(200, JsonBody("cards", Prop(JsonParse(content(r)), "cards")))>>,
        calls |-> 1]

\* handler of /api/summarize
summarizeAnswer(r) ==
  IF early(r).done THEN early(r)
  ELSE IF NoContent(r) THEN caught(1)
  ELSE [done |-> TRUE, sent |-> <<Sent(200, Obj([summary |-> content(r)]))>>,
        calls |-> 1]

\* The handler has called the model and waits at its await: nothing sent yet
Awaiting == [done |-> FALSE, sent |-> <<>>, calls |-> 1]

\* A handler as far as its await, or to the answer it gives before that
handlerStart(r) == IF early(r).done THEN early(r) ELSE Awaiting

\* What a step of a handler leaves alone
HandlerOnly ==
  /\ UNCHANGED <<reactVars, refVars, effectVars, guardTimers, storeVars, ghostVars, ops>>
  /\ UNCHANGED <<viewVars, speechVars, gen, sumReq, genGhost, req, studyVars>>

\* A request is handled by /api/flashcards, as far as the await of the model call
flashcardsHandler ==
  /\ req.path = "flashcards" /\ res = NoAnswer
  /\ res' = handlerStart(req)
  /\ HandlerOnly

\* The model call of /api/flashcards settles and the handler runs to its end
flashcardsAfterAwait ==
  /\ req.path = "flashcards" /\ res = Awaiting
  /\ res' = flashcardsAnswer(req)
  /\ HandlerOnly

\* A request is handled by /api/summarize, as far as the await of the model call
summarizeHandler ==
  /\ req.path = "summarize" /\ res = NoAnswer
  /\ res' = handlerStart(req)
  /\ HandlerOnly

\* The model call of /api/summarize settles and the handler runs to its end
summarizeAfterAwait ==
  /\ req.path = "summarize" /\ res = Awaiting
  /\ res' = summarizeAnswer(req)
  /\ HandlerOnly

\* ---------------------------------------------------------------- other devices
\* Another device of the signed-in user saves the draft (t, c, v) to note i
\* (saveNote there, accepted by the server): the merge write changes the server
\* document, or makes it when the note is no longer there, and the listener will
\* be told. The body this client saved last is no longer the stored one
RemoteSave(i, t, c, v) ==
  /\ Op /\ UNCHANGED toolVars
  /\ user # NoUser
  /\ clock + Len(pending) < MaxClock
  /\ LET w == saveNoteWrite([user |-> user, id |-> i, title |-> t, className |-> c,
                             body |-> v, cause |-> "remote", own |-> NoOwners], FALSE)
     IN store' = [store EXCEPT ![user]["notes"] = ApplyWrite(@, w, clock + 1)]
  /\ clock' = clock + 1
  /\ saved' = IF saved.on /\ saved.user = user /\ saved.id = i THEN NoSaved ELSE saved
  /\ UNCHANGED <<reactVars, refVars, effectVars, guardTimers, pending, usedIds>>
  /\ UNCHANGED <<alertMsg, uncaught, failed, rejects, draftCause, owner, unsaved,
                 pinGhost>>

\* Another device of the signed-in user deletes note i: the server document
\* goes away and the listener will be told
RemoteDelete(i) ==
  /\ Op /\ UNCHANGED toolVars
  /\ user # NoUser
  /\ i \in DOMAIN store[user]["notes"]
  /\ store' = [store EXCEPT ![user]["notes"] =
                 [j \in DOMAIN @ \ {i} |-> @[j]]]
  /\ saved' = IF saved.on /\ saved.user = user /\ saved.id = i THEN NoSaved ELSE saved
  /\ UNCHANGED <<reactVars, refVars, effectVars, guardTimers, pending, usedIds,
                 clock>>
  /\ UNCHANGED <<alertMsg, uncaught, failed, rejects, draftCause, owner, unsaved,
                 pinGhost>>

\* ---------------------------------------------------------------- study mode
\* useMemo: studyOnlyThisNote && activeNoteId
\*   ? cards.filter((c) => c.noteId === activeNoteId) : cards
OfActiveNote(c) == c.noteId = activeNoteId
studyDeck ==
  IF studyOnlyThisNote /\ activeNoteId # Null
    THEN SelectSeq(cards, OfActiveNote)
    ELSE cards

\* A click in the flashcards panel (rendered once a user is signed in), and
\* what a study handler leaves alone
StudyOnly ==
  /\ Op
  /\ Shown
  /\ UNCHANGED <<reactVars, refVars, effectVars, guardTimers, storeVars>>
  /\ UNCHANGED <<uncaught, failed, saved, rejects, draftCause, owner, unsaved, pinGhost>>
  /\ UNCHANGED <<viewVars, speechVars, gen, sumReq, genGhost, httpVars>>

\* The Study button
startStudy ==
  /\ StudyOnly
  /\ IF Len(studyDeck) = 0
       THEN /\ alertMsg' = "No flashcards to study yet."
            /\ UNCHANGED studyVars
       ELSE /\ studyMode' = TRUE
            /\ studyIndex' = 0
            /\ studyFlipped' = FALSE
            /\ UNCHANGED <<studyOnlyThisNote, alertMsg>>

\* The state stopStudy sets
Stopped == studyMode' = FALSE /\ studyFlipped' = FALSE /\ studyIndex' = 0

\* The Exit button, shown in study mode
stopStudy ==
  /\ StudyOnly
  /\ studyMode
  /\ Stopped
  /\ UNCHANGED <<studyOnlyThisNote, alertMsg>>

\* Math.min(i + 1, Math.max(0, studyDeck.length - 1))
nextIndex(i, n) ==
  LET last == IF n - 1 > 0 THEN n - 1 ELSE 0
  IN IF i + 1 < last THEN i + 1 ELSE last

\* nextCard, as the Next button calls it
nextCard ==
  /\ studyFlipped' = FALSE
  /\ studyIndex' = nextIndex(studyIndex, Len(studyDeck))
  /\ UNCHANGED studyMode

\* The Next button, shown in study mode and disabled while the deck is empty
NextButton ==
  /\ StudyOnly
  /\ studyMode /\ Len(studyDeck) # 0
  /\ IF studyIndex >= Len(studyDeck) - 1
       THEN alertMsg' = "Done!" /\ Stopped
       ELSE nextCard /\ UNCHANGED alertMsg
  /\ UNCHANGED studyOnlyThisNote

\* The Prev button, shown in study mode and disabled on the first card
prevCard ==
  /\ StudyOnly
  /\ studyMode /\ studyIndex # 0
  /\ studyFlipped' = FALSE
  /\ studyIndex' = IF studyIndex - 1 > 0 THEN studyIndex - 1 ELSE 0
  /\ UNCHANGED <<studyMode, studyOnlyThisNote, alertMsg>>

\* The card or the Show A / Show Q button is clicked
FlipCard ==
  /\ StudyOnly
  /\ studyMode
  /\ studyFlipped' = ~studyFlipped
  /\ UNCHANGED <<studyMode, studyIndex, studyOnlyThisNote, alertMsg>>

\* The "Only this note" checkbox
ToggleOnlyThisNote ==
  /\ StudyOnly
  /\ studyOnlyThisNote' = ~studyOnlyThisNote
  /\ UNCHANGED <<studyMode, studyIndex, studyFlipped, alertMsg>>

\* ---------------------------------------------------------------- specification
\* What the component and the store do on their own, every write succeeding
System ==
  \/ EffectSync
  \/ SnapshotNotes
  \/ SnapshotTasks
  \/ SnapshotCards
  \/ EffectLoad
  \/ GuardReset
  \/ EffectAutosave
  \/ TimerFire
  \/ Ack

\* Text the user types into the body: note 1's stored body, and a new one
\* A scenario in which the user waits for the page to come to rest before the
\* click or keystroke A
WhenReady(A) == Ready /\ A

EditBodies == {<<"a">>, <<"x">>}

\* The editor: one user signs in, selects notes, edits the body and saves
Next ==
  \/ System
  \/ AuthChanged("u1")
  \/ \E k \in 1..Len(notes) : Select(k)
  \/ \E v \in EditBodies : EditBody(v)
  \/ ManualSave

Spec == Init /\ [][Next]_vars

\* Saving with a store that may refuse writes
NextFail ==
  \/ System
  \/ Reject
  \/ AuthChanged("u1")
  \/ \E v \in EditBodies : EditBody(v)
  \/ ManualSave

SpecFail == Init /\ [][NextFail]_vars

\* Every kind of write, with a store that may refuse writes
TaskTitles == {<<"t">>}
TaskDues == {1}

NextWrites ==
  \/ System
  \/ Reject
  \/ AuthChanged("u1")
  \/ WhenReady(ManualSave)
  \/ WhenReady(createNote)
  \/ \E ok \in BOOLEAN : WhenReady(deleteNote(ok))
  \/ \E k \in 1..Len(notes) : WhenReady(togglePin(k))
  \/ \E v \in TaskTitles : EditTask("title", v)
  \/ \E d \in TaskDues : EditDue(d)
  \/ WhenReady(addTask)
  \/ \E k \in 1..Len(tasks) : WhenReady(toggleTask(k))
  \/ \E k \in 1..Len(tasks) : WhenReady(deleteTask(k))

SpecWrites == Init /\ [][NextWrites]_vars

\* The notes list: select, delete, pin
NextNotes ==
  \/ System
  \/ AuthChanged("u1")
  \/ \E k \in 1..Len(notes) : Select(k)
  \/ deleteNote(TRUE)
  \/ \E k \in 1..Len(notes) : togglePin(k)

SpecNotes == Init /\ [][NextNotes]_vars

\* Accounts and the three mirrored lists: users come and go
NextSync ==
  \/ System
  \/ \E u \in Users \cup {NoUser} : AuthChanged(u)
  \/ \E k \in 1..Len(notes) : Select(k)
  \/ \E k \in 1..Len(notes) : togglePin(k)
  \/ \E k \in 1..Len(tasks) : toggleTask(k)

SpecSync == Init /\ [][NextSync]_vars

\* The editor across accounts: users come and go, the editor is used
NextAccounts ==
  \/ System
  \/ \E u \in Users \cup {NoUser} : AuthChanged(u)
  \/ \E v \in EditBodies : EditBody(v)
  \/ ManualSave

SpecAccounts == Init /\ [][NextAccounts]_vars

\* Flashcard generation: the answers /api/flashcards can give
Long(n) == [i \in 1..n |-> Letters[((i - 1) % 26) + 1]]
Card(q, a) == Obj([question |-> Str(q), answer |-> Str(a)])
ManyCards(n) == [k \in 1..n |-> Card(<<Letters[k]>>, <<Letters[k], "!">>)]
NoProps == [f \in {} |-> Undefined]
OddCards ==
  <<Card(Long(501), Long(1501)), Card(Long(500), Long(1500)), Obj(NoProps),
    Obj([question |-> Num(70), answer |-> Num(0)]),
    Obj([question |-> Str(Empty), answer |-> Obj(NoProps)])>>
CardArrays ==
  {<<>>, ManyCards(1), ManyCards(25), ManyCards(26), OddCards,
   <<JsNull>>, <<Card(<<"q">>, <<"a">>), JsNull>>, <<Str(<<"x">>)>>}
CardResponses ==
  {[net |-> "down", ok |-> FALSE, json |-> FALSE, data |-> Undefined],
   [net |-> "up", ok |-> FALSE, json |-> TRUE, data |-> Obj(NoProps)],
   [net |-> "up", ok |-> TRUE, json |-> FALSE, data |-> Undefined],
   Response(JsNull), Response(Obj(NoProps)),
   Response(Obj([cards |-> Str(<<"x">>)]))}
  \cup {Response(Obj([cards |-> Arr(a)])) : a \in CardArrays}

\* Another note is selected while the request is in flight
SelectWhileFetching(k) == (\E j \in 1..Len(gen) : gen[j].st = "fetch") /\ Select(k)

\* The answer arrives when the page has come to rest
AtRest == Ready /\ pending = <<>> /\ saveDebounceRef = NoTimer
ResponseAtRest(r) == AtRest /\ \E j \in 1..Len(gen) : FlashcardsResponse(j, r)

NextCards ==
  \/ System
  \/ AckCard
  \/ RejectCard
  \/ AuthChanged("u1")
  \/ \E k \in 1..Len(notes) : SelectWhileFetching(k)
  \/ makeFlashcards
  \/ \E r \in CardResponses : ResponseAtRest(r)
SpecCards == Init /\ [][NextCards]_vars


\* Summaries: the answers /api/summarize can give
SummaryResponses ==
  {[net |-> "down", ok |-> FALSE, json |-> FALSE, data |-> Undefined],
   [net |-> "up", ok |-> FALSE, json |-> TRUE, data |-> Obj(NoProps)],
   [net |-> "up", ok |-> TRUE, json |-> FALSE, data |-> Undefined],
   Response(JsNull), Response(Obj(NoProps)),
   Response(Obj([summary |-> Str(<<"s">>)]))}

\* The files chosen for import and what extractPdfText answers
PdfFiles == {<<"f">>}
PdfAnswers == {[ok |-> FALSE], [ok |-> TRUE, text |-> <<"p">>]}

NextSummary ==
  \/ System
  \/ AuthChanged("u1")
  \/ \E k \in 1..Len(notes) : WhenReady(Select(k))
  \/ \E v \in EditBodies : WhenReady(EditBody(v))
  \/ summarize
  \/ \E j \in 1..MaxOps : \E r \in SummaryResponses : SummarizeResponse(j, r)
  \/ \E f \in PdfFiles : importPdf(f)
  \/ \E j \in 1..MaxOps : \E r \in PdfAnswers : PdfResponse(j, r)
SpecSummary == Init /\ [][NextSummary]_vars


\* The note list view: the notes the store of u1 may hold when the page is opened
Note(i, t, c, b, p, u) ==
  [id |-> i, title |-> t, className |-> c, body |-> b, pinned |-> p,
   createdAt |-> 1, updatedAt |-> u]
\* A document made by a merge write to a missing document (togglePin): no
\* title, folder or body
BareNote(i, p, u) == [id |-> i, pinned |-> p, updatedAt |-> u]
NotePool ==
  {Note(1, <<"a">>, <<"B">>, <<"x">>, FALSE, 3),
   Note(2, <<"A", " ", "b">>, <<" ", "B", " ">>, <<"b">>, TRUE, 2),
   Note(3, <<"c">>, Empty, <<"d">>, FALSE, 2),
   Note(4, <<"c">>, <<"C">>, <<"a", "B">>, TRUE, 1),
   Note(6, <<"A", "L", "L">>, <<"A", "L", "L">>, <<"y">>, TRUE, 3),
   BareNote(7, TRUE, 3)}
MaxNotes == 3
\* The stored document of a note of the pool: its fields without the id
DocOf(n) == [f \in DOMAIN n \ {"id"} |-> n[f]]
\* The store in which u1 has the notes S
NoteStore(S) ==
  [SeedStore EXCEPT !["u1"]["notes"] =
     [i \in {n.id : n \in S} |-> DocOf(CHOOSE n \in S : n.id = i)]]
NoteStores == {NoteStore(S) : S \in {T \in SUBSET NotePool : Cardinality(T) <= MaxNotes}}
Searches == {Empty, <<"A", "b">>, <<"a", " ", "B">>, <<" ">>, <<"z">>, <<"U", "n">>}
Filters == {ALL, <<"B">>, <<"C">>}

\* The page is opened over one of the stores; u1 signs in, the lists arrive, a
\* note may be created (its timestamps pending until the server answers), and
\* the search box and the folder filter are used
InitNotesView ==
  /\ \E s \in NoteStores : InitCoreAt(s, 3, {1, 2, 3, 4, 6, 7})
  /\ notes = <<>> /\ tasks = <<>>
  /\ InitTools /\ InitViews
NextNotesView ==
  \/ System
  \/ AuthChanged("u1")
  \/ WhenReady(createNote)
  \/ \E v \in Searches : WhenReady(SearchNotes(v))
  \/ \E f \in Filters : WhenReady(FilterNotes(f))
SpecNotesView == InitNotesView /\ [][NextNotesView]_vars


\* The calendar map: mirrored lists as the tasks query can deliver them
Task(i, d, x) ==
  [id |-> i, title |-> <<"t">>, className |-> Empty, due |-> d, done |-> x,
   createdAt |-> 1]
TaskPool ==
  {Task(1, 0, FALSE), Task(2, 1, FALSE), Task(3, 1, TRUE), Task(4, 1, FALSE),
   Task(5, 2, FALSE), Task(6, 2, TRUE)}
MaxTasks == 3
\* orderBy("due", "asc")
InDueOrder(list) == \A i, j \in 1..Len(list) : i < j => list[i].due <= list[j].due
TaskLists ==
  UNION {{l \in [1..n -> TaskPool] :
            /\ \A i, j \in 1..n : i # j => l[i].id # l[j].id
            /\ InDueOrder(l)} : n \in 0..MaxTasks}

InitTasksView ==
  /\ InitCore /\ notes = <<>> /\ tasks \in TaskLists
  /\ InitTools /\ InitViews
NextTasksView == TasksView
SpecTasksView == InitTasksView /\ [][NextTasksView]_vars


\* The calendar grid: reference months with leap and common Februaries, a
\* February of exactly four weeks, months that need six rows
Years == {2000, 2015, 2024, 2026, 2100}
Months == {Date(y, m, d) : y \in Years, m \in 0..11, d \in {1, 28}}

InitCalendar ==
  /\ InitCore /\ notes = <<>> /\ tasks = <<>>
  /\ InitTools
  /\ noteSearch = Empty /\ classFilter = ALL /\ view = NoView
  /\ calMonth \in Months
NextCalendar ==
  \/ System
  \/ AuthChanged("u1")
  \/ StepMonth(-1)
  \/ StepMonth(1)
  \/ TodayMonth
SpecCalendar == InitCalendar /\ [][NextCalendar]_vars


\* Transcription: result events with interim and final segments
Result(f, t) == [isFinal |-> f, transcript |-> t]
ResultEvents ==
  {<<Result(FALSE, <<"h">>)>>, <<Result(TRUE, <<"h">>)>>,
   <<Result(TRUE, <<"h">>), Result(FALSE, <<"i">>), Result(TRUE, Empty)>>}
TranscriptEdits == {<<"e">>, <<" ">>}

InitSpeechAny ==
  /\ InitCore /\ notes = <<>> /\ tasks = <<>>
  /\ \E supported \in BOOLEAN : InitSpeech(supported)
  /\ InitRequests /\ InitViews /\ req = NoCall /\ res = NoAnswer
  /\ InitStudy
NextSpeech ==
  \/ System
  \/ AuthChanged("u1")
  \/ \E r \in ResultEvents : RecResult(r)
  \/ RecError
  \/ RecEnd
  \/ startTranscription
  \/ stopTranscription
  \/ \E v \in TranscriptEdits : EditTranscript(v)
  \/ ClearTranscript
  \/ insertTranscriptIntoNote
SpecSpeech == InitSpeechAny /\ [][NextSpeech]_vars


\* Text the user types into the title and folder fields: white space only,
\* white space around a word (a tab among it), nothing
DraftTitles == {<<" ">>, <<" ", "s", "\t">>, Empty}
DraftClasses == {<<" ", "d", " ">>}
DraftBodies == {<<" ", "x", "\n">>}

\* The editor with all three draft fields
NextDraft ==
  \/ System
  \/ AuthChanged("u1")
  \/ \E v \in DraftTitles : EditTitle(v)
  \/ \E v \in DraftClasses : EditClass(v)
  \/ \E v \in DraftBodies : EditBody(v)
  \/ ManualSave

SpecDraft == Init /\ [][NextDraft]_vars

\* Deleting notes: select, edit, delete with either answer to confirm(), a store
\* that may refuse
DeleteBodies == {<<"a">>, <<"x">>}

NextDelete ==
  \/ System
  \/ Reject
  \/ AuthChanged("u1")
  \/ \E k \in 1..Len(notes) : Select(k)
  \/ \E v \in DeleteBodies : EditBody(v)
  \/ \E ok \in BOOLEAN : deleteNote(ok)

SpecDelete == Init /\ [][NextDelete]_vars

\* Saving and loading again: bodies with white space at both ends and the empty
\* body are typed, saved, and the note is selected again
RoundTripBodies == {<<" ", "x", "\n">>, Empty}

NextRoundTrip ==
  \/ System
  \/ AuthChanged("u1")
  \/ \E k \in 1..Len(notes) : Select(k)
  \/ \E v \in RoundTripBodies : EditBody(v)
  \/ ManualSave

SpecRoundTrip == Init /\ [][NextRoundTrip]_vars

\* New notes: the user creates notes, selects, edits the body and saves
NextCreate ==
  \/ System
  \/ AuthChanged("u1")
  \/ createNote
  \/ \E k \in 1..Len(notes) : Select(k)
  \/ \E v \in EditBodies : EditBody(v)
  \/ ManualSave

SpecCreate == Init /\ [][NextCreate]_vars

\* The endpoint handlers: methods, request bodies (none; no text; texts of no,
\* nine and ten characters; a number for a text), a client constructor that may
\* throw, and the answers of the language model
Methods == {"GET", "POST", "PUT"}
Bodies ==
  {Undefined, JsNull, Obj(NoProps), Obj([text |-> JsNull]), Obj([text |-> Str(Empty)]),
   Obj([text |-> Str(Long(9))]), Obj([text |-> Str(Long(10))]),
   Obj([text |-> Num(12345)])}
Contents ==
  {JsNull, Str(<<"o", "k">>), Str(JsonNullText), Str(JsonEmptyObject), Str(JsonNoCards),
   Str(JsonOneCard)}
ApiAnswers ==
  {[outcome |-> "rejects", choices |-> <<>>], [outcome |-> "resolves", choices |-> <<>>]}
    \cup {[outcome |-> "resolves", choices |-> <<c>>] : c \in Contents}
Requests ==
  [path : {"flashcards", "summarize"}, method : Methods, body : Bodies,
   client : {"ok", "throws"}, api : ApiAnswers]

InitHandlers ==
  /\ InitCore /\ notes = <<>> /\ tasks = <<>>
  /\ InitSpeech(TRUE) /\ InitRequests /\ InitViews /\ InitStudy
  /\ req \in Requests /\ res = NoAnswer
NextHandlers ==
  \/ flashcardsHandler
  \/ flashcardsAfterAwait
  \/ summarizeHandler
  \/ summarizeAfterAwait
SpecHandlers == InitHandlers /\ [][NextHandlers]_vars

\* Loading notes into the editor: the user signs in and out, creates notes and
\* selects notes, and never types
NextLoad ==
  \/ System
  \/ \E u \in {"u1", NoUser} : AuthChanged(u)
  \/ createNote
  \/ \E k \in 1..Len(notes) : Select(k)

SpecLoad == Init /\ [][NextLoad]_vars

\* Two devices: this one selects notes and edits, another one saves its draft
\* to a note (also to one that has been deleted) and deletes notes
RemoteTitles == {<<"t">>, <<"n">>}
RemoteClasses == {<<"c">>}
RemoteBodies == {<<"r">>}

NextRemote ==
  \/ System
  \/ AuthChanged("u1")
  \/ \E k \in 1..Len(notes) : Select(k)
  \/ \E v \in EditBodies : EditBody(v)
  \/ \E i \in DOMAIN SeedNotes : \E t \in RemoteTitles : \E c \in RemoteClasses :
       \E v \in RemoteBodies : RemoteSave(i, t, c, v)
  \/ \E i \in DOMAIN SeedNotes : RemoteDelete(i)

SpecRemote == Init /\ [][NextRemote]_vars

\* The save state indicator: edit, delete, summarize, with every effect, timer,
\* snapshot and server answer eventually happening
SavedBodies == {<<"x">>}
SavedResponses == {Response(Obj([summary |-> Str(<<"s">>)]))}

NextSaved ==
  \/ System
  \/ AuthChanged("u1")
  \/ \E v \in SavedBodies : WhenReady(EditBody(v))
  \/ WhenReady(deleteNote(TRUE))
  \/ WhenReady(summarize)
  \/ \E j \in 1..MaxOps : \E r \in SavedResponses : SummarizeResponse(j, r)

\* React runs every effect that is due, the browser fires every timer that is
\* not cleared, the listener delivers every snapshot, the server answers every
\* write
Fairness ==
  /\ WF_vars(EffectSync) /\ WF_vars(SnapshotNotes) /\ WF_vars(SnapshotTasks)
  /\ WF_vars(SnapshotCards) /\ WF_vars(EffectLoad) /\ WF_vars(GuardReset)
  /\ WF_vars(EffectAutosave) /\ WF_vars(TimerFire) /\ WF_vars(Ack)

SpecSaved == Init /\ [][NextSaved]_vars /\ Fairness

\* Two devices: this one edits and saves, another one deletes notes
NextRemoteDelete ==
  \/ System
  \/ AuthChanged("u1")
  \/ \E v \in EditBodies : EditBody(v)
  \/ ManualSave
  \/ \E i \in DOMAIN SeedNotes : RemoteDelete(i)

SpecRemoteDelete == Init /\ [][NextRemoteDelete]_vars

\* Study mode: an account with three flashcards, two of note 1 and one of
\* note 2, and an account with none
StudyCards ==
  (1 :> [noteId |-> 1, noteTitle |-> <<"t">>, question |-> <<"q">>,
         answer |-> <<"a">>, createdAt |-> 2])
  @@ (2 :> [noteId |-> 1, noteTitle |-> <<"t">>, question |-> <<"r">>,
            answer |-> <<"b">>, createdAt |-> 1])
  @@ (3 :> [noteId |-> 2, noteTitle |-> <<"t">>, question |-> <<"s">>,
            answer |-> <<"c">>, createdAt |-> 1])
StudyStore == [SeedStore EXCEPT !["u1"]["flashcards"] = StudyCards]

InitStudyMode ==
  /\ InitCoreOn(StudyStore) /\ notes = <<>> /\ tasks = <<>>
  /\ InitTools /\ InitViews

NextStudy ==
  \/ System
  \/ \E u \in Users : AuthChanged(u)
  \/ \E k \in 1..Len(notes) : Select(k)
  \/ startStudy
  \/ stopStudy
  \/ NextButton
  \/ prevCard
  \/ FlipCard
  \/ ToggleOnlyThisNote

SpecStudy == InitStudyMode /\ [][NextStudy]_vars

\* ---------------------------------------------------------------- claims
SaveWrites == {k \in 1..Len(pending) : pending[k].op = "saveNote"}

\* C1: loading a note into the editor never by itself causes a store write: no
\* saveNote write is issued from an autosave timer that was armed because the
\* load effect (not the user) changed the draft.
C1_LoadNeverWrites == \A k \in SaveWrites : pending[k].cause # "load"

\* The autosave timer now pending will write the edit that is waiting
Scheduled == saveDebounceRef.kind = "autosave" /\ Covers(saveDebounceRef.save)

\* C2: after the user edits note A and then selects another note B before the
\* quiet period has elapsed, the write of A's edit is not dropped: once the
\* effects of the switch have run, it has been issued or its timer is pending.
C2_PendingSaveKept == Settled /\ unsaved.on /\ unsaved.switched => Scheduled

\* C3: an edit made with a user signed in, a note active and the guard off is
\* eventually written: while no further edit and no note switch has followed and
\* no write of it has been issued, a timer that will issue it is pending.
C3_EditScheduled == Settled /\ unsaved.on /\ ~unsaved.switched => Scheduled

\* C4: every saveNote write to note N carries title, folder and body that were
\* loaded from N or typed while N was the active note.
C4_NoForeignDraft ==
  \A k \in SaveWrites : \A f \in DOMAIN pending[k].own :
    pending[k].own[f] = [user |-> pending[k].user, id |-> pending[k].id]

\* A step in which the store refused a saveNote write
SaveRejected ==
  rejects' = rejects + 1 /\ Head(pending).op = "saveNote"

\* A step that issues, with no action of the user, a write of the edit whose
\* save failed, the user having done nothing since the failure
AutomaticRewrite ==
  /\ failed.on /\ failed.ops = ops /\ ops' = ops
  /\ Len(pending') > Len(pending)
  /\ LET w == pending'[Len(pending')]
     IN w.op = "saveNote" /\ w.cause = "edit"
        /\ w.user = failed.user /\ w.id = failed.id /\ w.data = failed.data

\* C5: when a saveNote write fails the save state becomes error, the draft
\* title, folder and body are left as they are, and no further write of that
\* edit is issued automatically: the next write of it follows a new edit or a
\* manual save.
C5_FailureKeepsDraft ==
  [][/\ SaveRejected =>
          /\ saveState' = "error"
          /\ <<draftTitle, draftClass, draftBody>>' = <<draftTitle, draftClass, draftBody>>
     /\ ~AutomaticRewrite]_vars

\* A step in which the store refused the oldest write
WriteRejected == rejects' = rejects + 1

\* C6: a failed store write of any persistence operation is caught and local
\* state is left intact: no rejection is left unhandled, and the active
\* selection, the draft and the task form are unchanged by the failure.
C6_FailuresCaught ==
  [][WriteRejected =>
       /\ uncaught' = {}
       /\ <<activeNoteId, draftTitle, draftClass, draftBody, taskTitle, taskClass, taskDue>>'
            = <<activeNoteId, draftTitle, draftClass, draftBody, taskTitle, taskClass, taskDue>>]_vars

\* A step that is the notes listener's callback
IsNotesSnapshot ==
  notes' # notes \/ (~delivered["notes"] /\ delivered'["notes"])

FirstOf(list) == IF list = <<>> THEN Null ELSE list[1].id

\* C7 as claimed: a notes snapshot changes the active selection only on the
\* first snapshot after (re)subscribing, and only when no note is active.
C7_OnlyFirstSnapshot ==
  [][IsNotesSnapshot /\ activeNoteId' # activeNoteId =>
       ~delivered["notes"] /\ activeNoteId = Null]_vars

\* C7 as amended: a notes snapshot, first or later, changes the active selection
\* only when no note is active, and then to the first note of the snapshot's
\* order (none for an empty snapshot); a non-null selection is never changed by
\* a snapshot, whatever position its note has in the new list.
C7_SnapshotSelection ==
  [][IsNotesSnapshot =>
       /\ activeNoteId # Null => activeNoteId' = activeNoteId
       /\ activeNoteId = Null => activeNoteId' = FirstOf(notes')]_vars

\* A later snapshot has put note 1 above the active note 2, which the first
\* snapshot had selected as the first of its order
C7_Witness ==
  /\ delivered["notes"] /\ notes = notesQ(subs)
  /\ Len(notes) = 2 /\ notes[1].id = 1
  /\ activeNoteId = 2 /\ ActiveIndex(notes, activeNoteId) = 2

\* list holds exactly the documents of user u's collection c that have field f,
\* each once, as the document's id and data
ExactDocs(list, u, c, f) ==
  LET docs == View(u, c)
      ids == {i \in DOMAIN docs : f \in DOMAIN docs[i]}
  IN /\ Len(list) = Cardinality(ids)
     /\ \A k \in 1..Len(list) :
          /\ list[k].id \in ids
          /\ list[k] = [id |-> list[k].id] @@ docs[list[k].id]
     /\ \A j, k \in 1..Len(list) : j < k => list[j].id # list[k].id

\* list is in the order of the query: descending by f, pending timestamps first
InDescOrder(list, u, c, f) ==
  \A j, k \in 1..Len(list) : j < k =>
    OrderKey(View(u, c), u, c, list[j].id, f) >= OrderKey(View(u, c), u, c, list[k].id, f)

InAscOrder(list, f) ==
  \A j, k \in 1..Len(list) : j < k => list[j][f] <= list[k][f]

IsTasksSnapshot ==
  tasks' # tasks \/ (~delivered["tasks"] /\ delivered'["tasks"])

IsCardsSnapshot ==
  cards' # cards \/ (~delivered["flashcards"] /\ delivered'["flashcards"])

\* C8: after every snapshot callback of a collection the local list is exactly
\* the documents of that snapshot in snapshot order, nothing of the previous
\* list retained, and the other two lists are unchanged.
C8_SnapshotReplaces ==
  [][/\ IsNotesSnapshot =>
          /\ ExactDocs(notes', subs, "notes", "updatedAt")
          /\ InDescOrder(notes', subs, "notes", "updatedAt")
          /\ tasks' = tasks /\ cards' = cards
     /\ IsTasksSnapshot =>
          /\ ExactDocs(tasks', subs, "tasks", "due")
          /\ InAscOrder(tasks', "due")
          /\ notes' = notes /\ cards' = cards
     /\ IsCardsSnapshot =>
          /\ ExactDocs(cards', subs, "flashcards", "createdAt")
          /\ InDescOrder(cards', subs, "flashcards", "createdAt")
          /\ notes' = notes /\ tasks' = tasks]_vars

\* The first snapshot of another user's notes has replaced the list of the user
\* who toggled a pin: no row of the previous list is left
C8_Witness ==
  /\ pinGhost.count > 0 /\ pinGhost.user = "u1"
  /\ subs = "u2" /\ delivered["notes"]
  /\ Len(notes) = 1 /\ notes[1].id = 3

\* C9: the three subscriptions are open exactly while a user is signed in: once
\* the live sync effect has run they listen to the signed-in user's collections
\* and to nothing when nobody is signed in, and only a snapshot of the current
\* user's subscriptions changes notes, tasks, cards or the active selection.
C9_SubscribedWhileSignedIn ==
  [][/\ ~depUser' => subs' = user'
     /\ IsNotesSnapshot \/ IsTasksSnapshot \/ IsCardsSnapshot =>
          subs = user /\ user # NoUser
     /\ notes' # notes => notes' = notesQ(user)
     /\ tasks' # tasks => tasks' = tasksQ(user)
     /\ cards' # cards => cards' = cardsQ(user)]_vars

\* Signed out after a session: the listeners are gone, the lists still shown
C9_Witness ==
  /\ user = NoUser /\ ~depUser /\ subs = NoUser
  /\ notes # <<>> /\ tasks # <<>> /\ cards # <<>>

\* The writes of togglePin to the note whose toggles are followed
PinWrites ==
  {k \in 1..Len(pending) : pending[k].op = "togglePin" /\ TracksPin(pending[k])}

\* C10: togglePin invoked twice on a note returns its stored pinned flag to the
\* original value, for every timing of the second invocation relative to the
\* snapshot that delivers the first toggle's result.
C10_TwiceRestores ==
  /\ pinGhost.count = 2 /\ PinWrites = {}
  /\ pinGhost.id \in DOMAIN store[pinGhost.user]["notes"]
  => Pinned(store[pinGhost.user]["notes"][pinGhost.id]) = pinGhost.orig

\* t is s without its leading and trailing white space
IsTrimOf(t, s) ==
  \E a \in 0..Len(s) : \E b \in a..Len(s) :
    /\ t = SubSeq(s, a + 1, b)
    /\ \A i \in 1..a : s[i] \in WhiteSpace
    /\ \A i \in (b + 1)..Len(s) : s[i] \in WhiteSpace
    /\ t # <<>> => t[1] \notin WhiteSpace /\ t[Len(t)] \notin WhiteSpace

\* A step in which saveNote issues its write
SaveIssued ==
  Len(pending') = Len(pending) + 1 /\ pending'[Len(pending')].op = "saveNote"

\* A step in which the store accepts a saveNote write
SaveAccepted ==
  /\ pending # <<>> /\ pending' = Tail(pending) /\ rejects' = rejects
  /\ Head(pending).op = "saveNote"

\* C11: every saveNote write stores the draft title trimmed, or "Untitled" when
\* the trimmed title is empty; the draft folder trimmed; the draft body as it
\* is; updatedAt = the server time; and, being a merge write, leaves the note's
\* pinned and createdAt fields as they were.
C11_SaveNoteFields ==
  [][/\ SaveIssued =>
          LET w == pending'[Len(pending')]
              c == IF w.manual
                     THEN [title |-> draftTitle, className |-> draftClass,
                           body |-> draftBody]
                     ELSE saveDebounceRef.save
          IN /\ DOMAIN w.data = {"title", "className", "body"}
             /\ \/ IsTrimOf(w.data.title, c.title) /\ w.data.title # <<>>
                \/ IsTrimOf(<<>>, c.title) /\ w.data.title = Untitled
             /\ IsTrimOf(w.data.className, c.className)
             /\ w.data.body = c.body
             /\ w.ts = {"updatedAt"}
     /\ SaveAccepted =>
          LET w == Head(pending)
              old == store[w.user]["notes"]
              new == store'[w.user]["notes"]
          IN /\ w.id \in DOMAIN new
             /\ \A f \in DOMAIN w.data : new[w.id][f] = w.data[f]
             /\ new[w.id].updatedAt = clock' /\ clock' > clock
             /\ \A f \in {"pinned", "createdAt"} :
                  IF w.id \in DOMAIN old /\ f \in DOMAIN old[w.id]
                    THEN f \in DOMAIN new[w.id] /\ new[w.id][f] = old[w.id][f]
                    ELSE f \notin DOMAIN new[w.id]
             /\ \A i \in DOMAIN old \ {w.id} : i \in DOMAIN new /\ new[i] = old[i]]_vars

\* A white-space-only title has been stored as "Untitled", the folder trimmed,
\* the body as typed, on a pinned note that is still pinned
C11_Witness ==
  /\ user = "u1" /\ activeNoteId = 2 /\ pending = <<>>
  /\ draftTitle = <<" ">> /\ draftClass = <<" ", "d", " ">>
  /\ 2 \in DOMAIN store["u1"]["notes"]
  /\ store["u1"]["notes"][2].title = Untitled
  /\ store["u1"]["notes"][2].className = <<"d">>
  /\ store["u1"]["notes"][2].pinned /\ store["u1"]["notes"][2].createdAt = 2
  /\ store["u1"]["notes"][2].updatedAt > 2

\* The history of generation g, and the cards handed to the other generations
Generations == 1..genGhost.n
History(g) == genGhost.h[g]
OthersIssued(g) == UNION {History(o).issued : o \in Generations \ {g}}
\* The cards in the store that were not there when generation g was invoked and
\* do not belong to another generation
CardsSince(g) ==
  (DOMAIN store[History(g).user]["flashcards"] \ History(g).before) \ OthersIssued(g)

\* C12: a generation that reports a count has persisted exactly the first
\* min(n, 25) of the n candidates of the response, in response order, each with
\* the id of the note that was active when the generation was invoked, and the
\* count it reports is the number of cards persisted
C12_FirstCardsPersisted ==
  \A g \in Generations :
    History(g).report = "saved" =>
      LET n == Len(History(g).arr)
          m == IF n < 25 THEN n ELSE 25
          ids == History(g).ids
          docs == store[History(g).user]["flashcards"]
      IN /\ Len(ids) = m /\ History(g).count = m
         /\ CardsSince(g) = {ids[k] : k \in 1..m}
         /\ Cardinality(CardsSince(g)) = History(g).count
         /\ \A k \in 1..m :
              /\ docs[ids[k]].noteId = History(g).noteId
              /\ docs[ids[k]].question = cardText(Prop(History(g).arr[k], "question"), 500)
              /\ docs[ids[k]].answer = cardText(Prop(History(g).arr[k], "answer"), 1500)
              /\ k < m => docs[ids[k]].createdAt < docs[ids[k + 1]].createdAt

\* 26 candidates came back, 25 cards were saved, and another note was selected
\* while the cards were being saved
C12_Witness ==
  /\ genGhost.n = 1 /\ History(1).report = "saved"
  /\ Len(History(1).arr) = 26 /\ History(1).count = 25
  /\ activeNoteId # History(1).noteId

\* The text of field f of candidate c: the empty string when the field is missing
FieldText(c, f) ==
  IF c.t = "object" /\ f \in DOMAIN c.p THEN String(c.p[f]) ELSE Empty
IsStringField(c, f) == c.t = "object" /\ f \in DOMAIN c.p /\ c.p[f].t = "string"
\* t is the first characters of s, at most n of them, and all of s when s is a
\* string field of at most n characters
IsCutOf(t, c, f, n) ==
  LET s == FieldText(c, f)
  IN /\ Len(t) <= n /\ Len(t) <= Len(s)
     /\ \A i \in 1..Len(t) : t[i] = s[i]
     /\ IsStringField(c, f) => Len(t) = Len(s) \/ Len(t) = n

\* C13: every flashcard persisted by makeFlashcards has a question of at most
\* 500 characters and an answer of at most 1500 characters, each the prefix of
\* the candidate's text, and the empty string when the candidate has no such field
C13_CardTextsCut ==
  \A g \in Generations :
    \A k \in 1..Len(History(g).ids) :
      LET d == store[History(g).user]["flashcards"][History(g).ids[k]]
          c == History(g).arr[k]
      IN /\ IsCutOf(d.question, c, "question", 500)
         /\ IsCutOf(d.answer, c, "answer", 1500)

\* Cards were saved from candidates of 501/1501 characters, of exactly 500/1500
\* characters, and without fields
C13_Witness ==
  /\ genGhost.n = 1 /\ History(1).report = "saved" /\ History(1).arr = OddCards
  /\ LET docs == store[History(1).user]["flashcards"]
         ids == History(1).ids
     IN /\ Len(docs[ids[1]].question) = 500 /\ Len(docs[ids[1]].answer) = 1500
        /\ docs[ids[2]].question = Long(500) /\ docs[ids[2]].answer = Long(1500)
        /\ docs[ids[3]].question = Empty /\ docs[ids[3]].answer = Empty

\* The response to generation g carried an array with an element that is not an
\* object
HasBadElement(g) ==
  \E k \in 1..Len(History(g).arr) : History(g).arr[k].t # "object"
\* No flashcard of generation g has been written
NothingWritten(g) ==
  /\ History(g).issued = {}
  /\ CardsSince(g) = {}

\* C14: when the call fails or its response is malformed or empty (an array with
\* an element that is not a {question, answer} object included), makeFlashcards
\* writes no flashcard at all and reports failure
C14_MalformedWritesNothing ==
  \A g \in Generations :
    HasBadElement(g) \/ History(g).report \in {"failed", "empty"} =>
      NothingWritten(g) /\ History(g).report # "saved"

\* The step in which the answer to a summarize request is handled
AppendAnswered == Len(sumReq'.flight) < Len(sumReq.flight)
SummarizeAnswered == AppendAnswered /\ sumReq'.last.kind = "summarize"
NotOk(r) == r.net = "down" \/ ~r.ok
HasSummary(r) ==
  /\ r.net = "up" /\ r.ok /\ r.json /\ r.data.t = "object"
  /\ "summary" \in DOMAIN r.data.p /\ r.data.p["summary"].t = "string"

\* C15: when the request fails or the status is not a success, summarize leaves
\* the draft title, folder and body as they are and reports failure; only a
\* success response changes the draft, and it does so by appending the summary
\* between the two markers to the body as it is when the response arrives (on a
\* page that is still mounted; an unmounted page has no draft to change)
C15_SummarizeOutcome ==
  [][SummarizeAnswered =>
       LET r == sumReq'.last.resp
       IN /\ draftTitle' = draftTitle /\ draftClass' = draftClass
          /\ NotOk(r) =>
               /\ draftBody' = draftBody
               /\ alertMsg' = "Summarize failed. (Check /api/summarize + OPENAI_API_KEY)"
          /\ draftBody' # draftBody => ~NotOk(r)
          /\ HasSummary(r) /\ Mounted =>
               draftBody' = draftBody \o <<"\n", "\n">> \o SummaryOpen \o <<"\n">>
                              \o r.data.p["summary"].v \o <<"\n">> \o SummaryClose
                              \o <<"\n">>]_vars

\* A summary has been appended to a body that was changed while the request
\* was in flight
C15_Witness ==
  /\ sumReq.last.on /\ sumReq.last.kind = "summarize" /\ HasSummary(sumReq.last.resp)
  /\ sumReq.last.prev # sumReq.last.text
  /\ draftBody = sumReq.last.prev \o <<"\n", "\n">> \o SummaryOpen \o <<"\n", "s", "\n">>
                   \o SummaryClose \o <<"\n">>

\* Note n is one of the notes of the computed view
InView(n) == \E j \in 1..Len(view.value) : view.value[j] = n
\* The selected folder is the ALL sentinel or the note's trimmed folder label
FolderOK(n) == classFilter = ALL \/ IsTrimOf(classFilter, Field(n, "className"))
\* Two characters that are the same letter, whatever their case
SameLetter(c, d) ==
  c = d \/ \E i \in 1..26 : {c, d} \subseteq {Letters[i], Capitals[i]}
\* The search string is empty or occurs in text, case ignored
SearchOK(text) ==
  \/ noteSearch = Empty
  \/ \E i \in 1..Len(text) :
       /\ i + Len(noteSearch) - 1 <= Len(text)
       /\ \A j \in 1..Len(noteSearch) : SameLetter(text[i + j - 1], noteSearch[j])
\* A note without a title, folder or body has the empty text there
Concatenated(n) == Field(n, "title") \o Field(n, "className") \o Field(n, "body")
Spaced(n) ==
  Field(n, "title") \o <<" ">> \o Field(n, "className") \o <<" ">> \o Field(n, "body")
\* The view holds notes of the mirrored list only, each once
OnlyMirrored ==
  /\ \A j \in 1..Len(view.value) : \E k \in 1..Len(notes) : notes[k] = view.value[j]
  /\ \A i, j \in 1..Len(view.value) : i # j => view.value[i] # view.value[j]
\* A step in which the search box or the folder filter changes: the next render
\* computes the view
ViewComputed == noteSearch' # noteSearch \/ classFilter' # classFilter
MembershipConcatenated ==
  view.fn = "filteredNotes" =>
    /\ OnlyMirrored
    /\ \A k \in 1..Len(notes) :
         InView(notes[k]) <=> FolderOK(notes[k]) /\ SearchOK(Concatenated(notes[k]))
MembershipSpaced ==
  view.fn = "filteredNotes" =>
    /\ OnlyMirrored
    /\ \A k \in 1..Len(notes) :
         InView(notes[k]) <=> FolderOK(notes[k]) /\ SearchOK(Spaced(notes[k]))

\* C16 as stated: a mirrored note is in filteredNotes exactly when its folder is
\* selected and the search string is empty or occurs, case ignored, in the
\* concatenation of its title, folder and body; computing the view leaves the
\* mirrored list as it is
C16_FilterConcatenated ==
  [][ViewComputed => MembershipConcatenated' /\ notes' = notes]_vars

\* C16 read with the text searched being the title, the folder and the body
\* joined by single spaces, as filteredNotes joins them
C16_FilterSpaced == [][ViewComputed => MembershipSpaced' /\ notes' = notes]_vars

\* A search that spans the space between title and folder keeps note 1 and drops
\* another note of the selected folder
C16_Witness ==
  /\ view.fn = "filteredNotes"
  /\ noteSearch = <<"a", " ", "B">> /\ classFilter = <<"B">>
  /\ Len(view.value) = 2 /\ Len(notes) = 3
  /\ \E j \in 1..2 : view.value[j].id = 1

\* Note a is not older than note b, a note without an update time being the oldest
NotOlder(a, b) ==
  b.updatedAt = Null \/ (a.updatedAt # Null /\ a.updatedAt >= b.updatedAt)

\* C17: in filteredNotes every pinned note precedes every unpinned note, and
\* notes of equal pinned status are in descending order of update time, a note
\* without an update time sorting as the oldest
C17_PinnedThenRecent ==
  view.fn = "filteredNotes" =>
    \A i, j \in 1..Len(view.value) :
      i < j =>
        /\ view.value[j].pinned => view.value[i].pinned
        /\ view.value[i].pinned = view.value[j].pinned =>
             NotOlder(view.value[i], view.value[j])

\* An older pinned note comes first, a newer unpinned note second, and the note
\* whose timestamp is still pending last, against the order of the mirrored list
C17_Witness ==
  /\ view.fn = "filteredNotes" /\ Len(view.value) = 3
  /\ view.value[1].id = 2 /\ view.value[2].id = 1 /\ view.value[3].id = 5
  /\ notes[1].id = 5 /\ notes[2].id = 1 /\ notes[3].id = 2

\* The due dates a task of the pool can have, and one that none has
DueDates == 1..3
\* The tasks filed under due date D
Under(D) == IF D \in DOMAIN view.value THEN view.value[D] ELSE <<>>
\* Where in the mirrored list the task t is
Place(t) == CHOOSE k \in 1..Len(tasks) : tasks[k] = t

\* C18: for every due date D, tasksByDate maps D to exactly the mirrored tasks
\* whose due field is D, in the order of the mirrored list, none missing,
\* duplicated or filed under another date; a task without a due date is under no key
C18_TasksByDate ==
  view.fn = "tasksByDate" =>
    /\ DOMAIN view.value \subseteq DueDates
    /\ \A D \in DueDates :
         /\ \A k \in 1..Len(tasks) :
              tasks[k].due = D <=> \E j \in 1..Len(Under(D)) : Under(D)[j] = tasks[k]
         /\ \A j \in 1..Len(Under(D)) : \E k \in 1..Len(tasks) : tasks[k] = Under(D)[j]
         /\ \A i, j \in 1..Len(Under(D)) :
              i < j => Place(Under(D)[i]) < Place(Under(D)[j])
    /\ \A k \in 1..Len(tasks) :
         tasks[k].due = 0 =>
           \A D \in DOMAIN view.value :
             \A j \in 1..Len(view.value[D]) : view.value[D][j] # tasks[k]

\* Two tasks are filed under one date in list order and a task without a due
\* date under none
C18_Witness ==
  /\ view.fn = "tasksByDate" /\ Len(tasks) = 3
  /\ tasks[1].due = 0 /\ tasks[2].due = 1 /\ tasks[3].due = 1
  /\ DOMAIN view.value = {1}
  /\ view.value[1] = <<tasks[2], tasks[3]>>

\* The Gregorian calendar, stated without day numbers
IsLeap(y) == (y % 4 = 0 /\ y % 100 # 0) \/ y % 400 = 0
DaysIn(y, m) ==
  IF m = 1 THEN (IF IsLeap(y) THEN 29 ELSE 28)
  ELSE IF m \in {3, 5, 8, 10} THEN 30 ELSE 31
\* b is the day after a
NextDay(a, b) ==
  IF a.d < DaysIn(a.y, a.m) THEN b = Date(a.y, a.m, a.d + 1)
  ELSE IF a.m < 11 THEN b = Date(a.y, a.m + 1, 1)
  ELSE b = Date(a.y + 1, 0, 1)
\* The weekday by Zeller's congruence, Sunday = 0
Weekday(a) ==
  LET mz == IF a.m <= 1 THEN a.m + 13 ELSE a.m + 1
      yz == IF a.m <= 1 THEN a.y - 1 ELSE a.y
      K == yz % 100
      J == yz \div 100
      h == (a.d + ((13 * (mz + 1)) \div 5) + K + (K \div 4) + (J \div 4) + 5 * J) % 7
  IN (h + 6) % 7
\* a is in the month before the month of b
MonthBefore(a, b) ==
  IF b.m = 0 THEN a.y = b.y - 1 /\ a.m = 11 ELSE a.y = b.y /\ a.m = b.m - 1

\* C19: for every reference month buildMonthGrid returns exactly 42 consecutive
\* calendar dates, the first a Sunday on or before the 1st of the month, so that
\* the 1st sits at the index equal to its weekday number (Sunday = 0) within the
\* first 7 cells and every day of the month is in the grid
C19_MonthGrid ==
  view.fn = "buildMonthGrid" =>
    LET g == view.value
        first == Date(calMonth.y, calMonth.m, 1)
    IN /\ Len(g) = 42
       /\ \A i \in 1..41 : NextDay(g[i], g[i + 1])
       /\ Weekday(g[1]) = 0
       /\ g[1] = first \/ MonthBefore(g[1], first)
       /\ g[Weekday(first) + 1] = first
       /\ \A d \in 1..DaysIn(calMonth.y, calMonth.m) :
            \E i \in 1..42 : g[i] = Date(calMonth.y, calMonth.m, d)

\* After a step to another month: a month of 31 days that starts on a Saturday
\* fills the sixth row
C19_Witness ==
  /\ view.fn = "buildMonthGrid" /\ ops > 0 /\ calMonth # Today
  /\ view.value[7] = Date(calMonth.y, calMonth.m, 1)
  /\ view.value[37] = Date(calMonth.y, calMonth.m, 31)
  /\ view.value[1].m # calMonth.m /\ view.value[42].m # calMonth.m

\* The step is an event or operation of the given kind
SpeechStep(kind) == speechLog' # speechLog /\ speechLog'.kind = kind
\* The finalized segments of a result event, each followed by a space
RECURSIVE Spoken(_)
Spoken(results) ==
  IF results = <<>> THEN Empty
  ELSE IF Head(results).isFinal
    THEN Head(results).transcript \o <<" ">> \o Spoken(Tail(results))
    ELSE Spoken(Tail(results))

\* C20: an error event, an end event, stopTranscription and startTranscription
\* leave the transcript as it is; error, end and stop set isTranscribing to
\* false; the transcript changes only by a result event appending its finalized
\* segments, by an edit of the transcript field, or by Clear
C20_TranscriptFrame ==
  [][/\ SpeechStep("error") \/ SpeechStep("end") \/ SpeechStep("stop")
          \/ SpeechStep("start") => transcript' = transcript
     /\ SpeechStep("error") \/ SpeechStep("end") \/ SpeechStep("stop")
          => ~isTranscribing'
     /\ transcript' # transcript =>
          \/ /\ SpeechStep("result")
             /\ transcript' = transcript \o Spoken(speechLog'.results)
          \/ SpeechStep("edit")
          \/ SpeechStep("clear") /\ transcript' = Empty]_vars

\* A recognition error has ended a session that had appended a final segment
C20_Witness ==
  /\ speechLog.kind = "error" /\ ~isTranscribing /\ rec = "stopping"
  /\ transcript = <<"h", " ">>

\* The server accepts a deleteNote write
DeleteAccepted ==
  /\ pending # <<>> /\ Head(pending).op = "deleteNote"
  /\ pending' = Tail(pending) /\ rejects' = rejects

\* C21: when the store accepts the delete of a confirmed deleteNote, the note's
\* record is gone from the store and no note is active; a deleteNote whose
\* confirmation is declined leaves the store, the write queue, the active
\* selection and the draft as they are
C21_DeleteNote ==
  [][/\ DeleteAccepted =>
          /\ Head(pending).id \notin DOMAIN store'[Head(pending).user]["notes"]
          /\ activeNoteId' = Null
     /\ deleteNote(FALSE) =>
          UNCHANGED <<store, pending, activeNoteId, draftTitle, draftClass,
                      draftBody>>]_vars

\* A seeded note has been deleted and no note is active
C21_Witness ==
  /\ activeNoteId = Null /\ pending = <<>> /\ rejects = 0
  /\ \E i \in DOMAIN SeedNotes : i \notin DOMAIN store["u1"]["notes"]

\* The mirrored notes list shows the store as it is, no write to note i waiting
MirrorFresh(i) ==
  /\ subs = user /\ delivered["notes"] /\ notes = notesQ(user)
  /\ \A k \in 1..Len(pending) :
       ~(pending[k].user = user /\ pending[k].coll = "notes" /\ pending[k].id = i)

\* C22: round trip of the body: when the load effect loads a note from a fresh
\* mirror and the last accepted write of that note's body was a saveNote made
\* from draft body B, the draft body after the load is B itself, untrimmed
C22_BodyRoundTrip ==
  [][EffectLoad /\ saved.on /\ saved.user = user /\ saved.id = activeNoteId
       /\ MirrorFresh(activeNoteId)
     => draftBody' = saved.body]_vars

\* A body with white space at both ends was saved, another note was loaded, and
\* the load effect has just loaded the saved note again
C22_Witness ==
  /\ saved.on /\ saved.user = user /\ saved.id = activeNoteId
  /\ saved.body = <<" ", "x", "\n">>
  /\ MirrorFresh(activeNoteId)
  /\ depDraft /\ draftCause = "load" /\ draftBody = saved.body

\* The server accepts a createNote write
CreateAccepted ==
  /\ pending # <<>> /\ Head(pending).op = "createNote"
  /\ pending' = Tail(pending) /\ rejects' = rejects

\* The title, folder and body a note is created with
IsAsCreated(d) ==
  /\ Field(d, "title") = <<"N", "e", "w", " ", "N", "o", "t", "e">>
  /\ Field(d, "className") = <<>> /\ Field(d, "body") = <<>>

\* Notes of user u the session created (the store held the ids below 4 before)
CreatedNotes(u) == {i \in DOMAIN store[u]["notes"] : i >= 4}

\* C23: the note createNote stores has title "New Note", empty folder, empty body
\* and pinned false, and becomes the active note when the write is accepted; the
\* stored title, folder and body of a created note change only when the store
\* accepts a saveNote that is manual or was armed by a user edit
C23_CreateNote ==
  [][/\ CreateAccepted =>
          LET w == Head(pending)
              d == store'[w.user]["notes"][w.id]
          IN /\ IsAsCreated(d) /\ d.pinned = FALSE
             /\ activeNoteId' = w.id
     /\ \A u \in Users : \A i \in CreatedNotes(u) :
          /\ IsAsCreated(store[u]["notes"][i])
          /\ i \in DOMAIN store'[u]["notes"] => ~IsAsCreated(store'[u]["notes"][i])
          => /\ pending # <<>> /\ pending' = Tail(pending)
             /\ Head(pending).op = "saveNote" /\ Head(pending).id = i
             /\ Head(pending).manual \/ Head(pending).cause = "edit"]_vars

\* A created note is active and loaded, and a save of it has been accepted with
\* the created values still stored
C23_Witness ==
  /\ activeNoteId = 4 /\ 4 \in DOMAIN store["u1"]["notes"]
  /\ IsAsCreated(store["u1"]["notes"][4])
  /\ draftTitle = <<"N", "e", "w", " ", "N", "o", "t", "e">> /\ draftBody = <<>>
  /\ saved.on /\ saved.id = 4

\* The request carries no text, or a text shorter than ten characters
TextMissing == Throws(req.body) \/ Prop(req.body, "text").t \in {"undefined", "null"}
TextShort ==
  /\ ~Throws(req.body) /\ Prop(req.body, "text").t = "string"
  /\ Len(Prop(req.body, "text").v) < 10
\* The model call succeeded and, for flashcards, the answer is JSON text
ModelSucceeded ==
  /\ req.api.outcome = "resolves"
  /\ req.path = "flashcards" => req.api.choices # <<>> /\ ~JsonFails(req.api.choices[1])

\* C24: a handled request has exactly one response: 405 for a method other than
\* POST and 400 for a POST whose text is missing or shorter than ten
\* characters, both without a model call; otherwise 200 when the model call
\* (and for flashcards the JSON parse) succeeds, and 500 when it does not
C24_HandlerResponses ==
  res.done =>
    /\ Len(res.sent) = 1
    /\ req.method # "POST" => res.sent[1].status = 405 /\ res.calls = 0
    /\ req.method = "POST" /\ (TextMissing \/ TextShort) =>
         res.sent[1].status = 400 /\ res.calls = 0
    /\ req.method = "POST" /\ ~(TextMissing \/ TextShort) =>
         res.sent[1].status = IF ModelSucceeded THEN 200 ELSE 500

\* The draft holds the fields of note n (a missing field as the empty string)
DraftIs(n) ==
  /\ draftTitle = Field(n, "title") /\ draftClass = Field(n, "className")
  /\ draftBody = Field(n, "body")

\* The active note is set and mirrored, every effect has run, no timer of the
\* load effect is waiting, and no write is on its way
LoadSettled ==
  /\ Settled /\ guardTimers = 0
  /\ activeNoteId # Null /\ ActiveIndex(notes, activeNoteId) # 0
  /\ subs = user /\ delivered["notes"] /\ notes = notesQ(user)
  /\ pending = <<>>

\* C25: with no edit made, whenever a note N is active and mirrored and the
\* effects have settled, the draft title, folder and body are N's mirrored fields
\* and the save state is idle, also when N entered the mirrored list after it
\* became the active note
C25_DraftIsActiveNote ==
  LoadSettled =>
    /\ DraftIs(notes[ActiveIndex(notes, activeNoteId)])
    /\ saveDebounceRef = NoTimer => saveState = "idle"

\* C26: the draft is discarded with its note: once a deleteNote has succeeded
\* and the page is at rest with no active note, the draft title, folder and body
\* hold nothing of the deleted note (they are empty)
C26_DraftDiscarded ==
  Ready /\ activeNoteId = Null /\ pending = <<>> =>
    draftTitle = Empty /\ draftClass = Empty /\ draftBody = Empty

\* The autosave timer armed by a user edit is waiting in saveDebounceRef
EditTimer == saveDebounceRef.kind = "autosave" /\ saveDebounceRef.save.cause = "edit"

\* The store accepts a write that carries what the waiting timer would write
SameWriteAccepted ==
  /\ pending # <<>> /\ pending' = Tail(pending) /\ rejects' = rejects
  /\ Head(pending).op = "saveNote"
  /\ Head(pending).user = saveDebounceRef.save.user
  /\ Head(pending).id = saveDebounceRef.save.id
  /\ Head(pending).data = saveNoteWrite(saveDebounceRef.save, FALSE).data

\* C27: debounce: the autosave timer armed by an edit leaves saveDebounceRef only
\* by firing, which issues one write of the values it was armed with, or by
\* being cancelled by the autosave effect running again (a later edit of the
\* burst, which arms the next timer, or the load of another note), or when a
\* save of the same values has just been accepted; so the last timer of a burst
\* of edits fires and the final draft is written
C27_Debounce ==
  [][EditTimer /\ saveDebounceRef' # saveDebounceRef =>
       \/ /\ saveDebounceRef' = NoTimer
          /\ pending' = Append(pending, saveNoteWrite(saveDebounceRef.save, FALSE))
       \/ /\ depDraft /\ ~depDraft'
          /\ draftCause = "edit" => saveDebounceRef'.kind = "autosave"
                                      /\ saveDebounceRef'.save.body = draftBody
       \/ SameWriteAccepted]_vars

\* C28: switching the active note cancels the autosave timer that was pending:
\* once the effects of the switch have run, no autosave timer armed for another
\* note than the active one is waiting
C28_SwitchCancelsTimer ==
  Settled /\ saveDebounceRef.kind = "autosave" =>
    saveDebounceRef.save.id = activeNoteId

\* C29: a notes snapshot that leaves the active selection as it is leaves the
\* draft title, folder and body as they are, issues no write, arms no timer and
\* makes no effect due, whatever fields the snapshot carries for the active note
C29_SnapshotKeepsDraft ==
  [][SnapshotNotes /\ activeNoteId' = activeNoteId =>
       /\ UNCHANGED <<draftTitle, draftClass, draftBody>>
       /\ UNCHANGED <<pending, store, saveDebounceRef, saveState>>
       /\ ~depDraft' /\ ~depActive']_vars

\* The snapshot of another device's save has arrived for the active note: the
\* mirror holds the other device's body, the draft does not, nothing is waiting
C29_Witness ==
  /\ Ready /\ activeNoteId # Null /\ ActiveIndex(notes, activeNoteId) # 0
  /\ notes = notesQ(user)
  /\ notes[ActiveIndex(notes, activeNoteId)].body = <<"r">>
  /\ draftBody # <<"r">>
  /\ pending = <<>> /\ saveDebounceRef = NoTimer

\* C30: the save state does not remain saved forever: whenever it is saved, it
\* later is something else (idle once the 1.2 s timer fires)
C30_SavedThenIdle == (saveState = "saved") ~> (saveState # "saved")

\* C31 as stated: the save state is saving only while a saveNote write is in
\* flight (an edit waiting for its quiet period shows another state)
C31_SavingOnlyInFlight == saveState = "saving" => SaveWrites # {}

\* C31 with the quiet period counted as part of saving: once the effects have
\* run, the save state is saving only while an autosave timer is waiting or a
\* saveNote write is in flight
C31_SavingHasCause ==
  Settled /\ saveState = "saving" =>
    saveDebounceRef.kind = "autosave" \/ SaveWrites # {}

\* C32: a deleted note is never resurrected: a record appears under an identity
\* in a user's notes only when the store accepts a createNote write, never by a
\* saveNote that targets an identity whose record was deleted
C32_NoResurrection ==
  [][\A u \in Users : \A i \in 1..MaxId :
       i \in DOMAIN store'[u]["notes"] /\ i \notin DOMAIN store[u]["notes"]
       => pending # <<>> /\ Head(pending).op = "createNote"]_vars

\* C33: while no user is signed in this client issues no store write: no step
\* taken with the user signed out adds a write to the queue
C33_NoWriteSignedOut ==
  [][user = NoUser => Len(pending') <= Len(pending)]_vars

\* The note identities of the users other than u
ForeignNotes(u) == UNION {DOMAIN store[v]["notes"] : v \in Users \ {u}}

\* C34: no data crosses accounts: with a user signed in and the page at rest,
\* the active selection is none or one of that user's notes, every draft field
\* was loaded or typed under that user, the mirrored notes are that user's, and
\* no write in the queue for that user carries a note identity of another user
C34_NoCrossAccount ==
  Ready =>
    /\ activeNoteId \notin ForeignNotes(user)
    /\ \A f \in DOMAIN owner : owner[f].user \in {user, NoUser}
    /\ \A k \in 1..Len(notes) : notes[k].id \notin ForeignNotes(user)
    /\ \A k \in 1..Len(pending) :
         pending[k].user = user /\ pending[k].coll = "notes"
         => pending[k].id \notin ForeignNotes(user)

\* The identities of the notes in the mirrored list
MirrorIds == {notes[k].id : k \in 1..Len(notes)}

\* C35: with a user signed in and the notes mirror delivered, activeNoteId is
\* none or the identity of a note in the mirrored list, and every step that
\* queues a saveNote write queues it for an identity present in the mirror
C35_ActiveInMirror ==
  /\ [](user # NoUser /\ Settled /\ delivered["notes"]
        => activeNoteId = Null \/ activeNoteId \in MirrorIds)
  /\ [][\A k \in SaveWrites' : k > Len(pending) => pending'[k].id \in MirrorIds]_vars

\* The save indicator says that nothing is waiting: saved, or idle with no
\* autosave timer pending
ShowsWritten ==
  \/ saveState = "saved"
  \/ saveState = "idle" /\ saveDebounceRef.kind # "autosave"

\* The record of note i of user u, queued writes included, holds what saveNote
\* writes for the current draft
DraftWritten(u, i) ==
  /\ i \in DOMAIN View(u, "notes")
  /\ View(u, "notes")[i].title = OrText(trim(draftTitle), Untitled)
  /\ View(u, "notes")[i].className = trim(draftClass)
  /\ View(u, "notes")[i].body = draftBody

\* The active note has been edited: the autosave effect has seen an edit of it,
\* the draft still holds that edit and no other note has been selected since
EditedActive ==
  /\ unsaved.on /\ ~unsaved.switched
  /\ unsaved.user = user /\ unsaved.id = activeNoteId
  /\ unsaved.title = draftTitle /\ unsaved.className = draftClass
  /\ unsaved.body = draftBody

\* C36: the save indicator never claims more than was written: whenever it shows
\* saved, or idle with no autosave timer pending, and the active note has been
\* edited, the values last written to its record equal the current draft
C36_IndicatorHonest ==
  /\ Settled /\ user # NoUser /\ activeNoteId # Null
  /\ EditedActive
  /\ ShowsWritten
  => DraftWritten(user, activeNoteId)

\* C37: the result of an asynchronous draft operation lands only in the note it
\* was requested for: a step in which the answer of summarize or importPdf
\* changes the draft body is taken with the note active that was active when the
\* operation was invoked
C37_SummaryLandsInItsNote ==
  [][AppendAnswered /\ draftBody' # draftBody => activeNoteId = sumReq'.last.id]_vars

\* C38: while study mode is on, the study deck is non-empty and studyIndex is
\* an index of it: 0 <= studyIndex < length of the study deck
C38_StudyIndexInDeck ==
  studyMode => Len(studyDeck) > 0 /\ 0 <= studyIndex /\ studyIndex < Len(studyDeck)

====
